---- MODULE Spec2Model ----
(***************************************************************************)
(* AgentDock: the tool-invocation protocol of BaseAgent / GitHubAgent /    *)
(* SlackAgent (src/src/mcp/agents) over the GitHubTool action catalog      *)
(* (src/src/mcp/tools/githubTool.js).                                      *)
(*                                                                         *)
(* Text is a sequence of atoms.  An atom is either a single character the  *)
(* code treats specially ("[", "]", ":", "$", "&", "'", "{", "}", ",",     *)
(* the grave accent) or a run of characters none of which is special (a    *)
(* word, a JSON scalar, a fixed piece of a marker template).               *)
(***************************************************************************)
EXTENDS Integers, Sequences, FiniteSets, TLC

(***************************************************************************)
(* Bounds of the model.                                                    *)
(***************************************************************************)
MaxTags == 2
MaxRegOps == 2

(***************************************************************************)
(* Strings.                                                                *)
(***************************************************************************)
Empty == << >>

\* String.prototype.toLowerCase, atom by atom.
LowerAtom(a) ==
  CASE a = "GitHub" -> "github"
    [] a = "Tool" -> "tool"
    [] a = "TOOL" -> "tool"
    [] a = "PR" -> "pr"
    [] a = "Summarize" -> "summarize"
    [] a = "Review" -> "review"
    [] a = "Send" -> "send"
    [] a = "Create" -> "create"
    [] a = "Show" -> "show"
    [] a = "Ops" -> "ops"
    [] OTHER -> a

toLowerCase(s) == [i \in 1..Len(s) |-> LowerAtom(s[i])]

\* s.substring(from-1, to) with 1-based inclusive positions.
Slice(s, from, to) == IF to < from THEN Empty ELSE SubSeq(s, from, to)

OccursAt(hay, needle, i) ==
  /\ i >= 1
  /\ i + Len(needle) - 1 <= Len(hay)
  /\ \A k \in 1..Len(needle) : hay[i + k - 1] = needle[k]

\* String.prototype.indexOf: the first position of needle in hay, 0 if none.
IndexOf(hay, needle) ==
  LET hits == {i \in 1..(Len(hay) + 1) : OccursAt(hay, needle, i)}
  IN  IF hits = {} THEN 0 ELSE CHOOSE i \in hits : \A j \in hits : i <= j

Contains(hay, needle) == IndexOf(hay, needle) # 0

\* The position of the first atom c in s at or after from, 0 if none.
FirstAt(s, c, from) ==
  LET hits == {i \in from..Len(s) : s[i] = c}
  IN  IF hits = {} THEN 0 ELSE CHOOSE i \in hits : \A j \in hits : i <= j

RECURSIVE Join(_, _)
\* Array.prototype.join.
Join(parts, sep) ==
  IF parts = << >> THEN Empty
  ELSE IF Len(parts) = 1 THEN parts[1]
  ELSE parts[1] \o sep \o Join(Tail(parts), sep)

(***************************************************************************)
(* The tag scanner: toolActionRegex of processToolActions,                 *)
(*   /\[TOOL_ACTION:([^:]+?)(?:[Tt]ool)?:([^:]+):([^\]]+)\]/g              *)
(* Each class excludes the character that ends it, so at a given start     *)
(* the three groups are the runs up to the next ":", ":" and "]".          *)
(***************************************************************************)
NoMatch == [found |-> FALSE]

\* ([^:]+?)(?:[Tt]ool)? : the lazy group gives up one trailing Tool/tool.
StripToolSuffix(seg) ==
  IF Len(seg) >= 2 /\ seg[Len(seg)] \in {"Tool", "tool"}
  THEN Slice(seg, 1, Len(seg) - 1)
  ELSE seg

\* The match that starts at position s, or NoMatch.
MatchAt(text, s) ==
  IF ~(/\ s + 2 <= Len(text)
       /\ text[s] = "["
       /\ text[s + 1] = "TOOL_ACTION"
       /\ text[s + 2] = ":")
  THEN NoMatch
  ELSE LET c1 == FirstAt(text, ":", s + 3) IN
    IF c1 = 0 \/ c1 = s + 3 THEN NoMatch
    ELSE LET c2 == FirstAt(text, ":", c1 + 1) IN
      IF c2 = 0 \/ c2 = c1 + 1 THEN NoMatch
      ELSE LET b == FirstAt(text, "]", c2 + 1) IN
        IF b = 0 \/ b = c2 + 1 THEN NoMatch
        ELSE [found      |-> TRUE,
              index      |-> s,
              end        |-> b,
              fullMatch  |-> Slice(text, s, b),
              toolName   |-> StripToolSuffix(Slice(text, s + 3, c1 - 1)),
              actionName |-> Slice(text, c1 + 1, c2 - 1),
              paramsStr  |-> Slice(text, c2 + 1, b - 1)]

\* toolActionRegex.exec(response) with lastIndex = from - 1: the leftmost match
\* starting at or after from.
RegexExec(text, from) ==
  LET starts == {s \in from..Len(text) : MatchAt(text, s).found}
  IN  IF starts = {} THEN NoMatch
      ELSE MatchAt(text, CHOOSE s \in starts : \A t \in starts : s <= t)

RECURSIVE AllMatches(_, _)
\* Every match of the global regex in text from position from on, in order.
AllMatches(text, from) ==
  LET m == RegexExec(text, from)
  IN  IF ~m.found THEN << >> ELSE <<m>> \o AllMatches(text, m.end + 1)

(***************************************************************************)
(* JSON.parse on the parameter text.  JavaScript values are written as     *)
(* their JSON literal; an object is a function from its keys to values.    *)
(* The parser covers scalars and flat objects, which is what a parameter   *)
(* text without "]" and without nesting can be.                            *)
(***************************************************************************)
StringAtoms == {"\"number\"", "\"body\"", "\"owner\"", "\"repo\"",
                "\"\"", "\"acme\"", "\"hi\"", "\"a]b\""}
NumberAtoms == {"0", "7", "42"}
ScalarAtoms == StringAtoms \cup NumberAtoms \cup {"true", "false", "null"}

\* The JavaScript string a JSON string literal denotes.
Unquote(a) ==
  CASE a = "\"number\"" -> "number"
    [] a = "\"body\"" -> "body"
    [] a = "\"owner\"" -> "owner"
    [] a = "\"repo\"" -> "repo"
    [] a = "\"\"" -> ""
    [] a = "\"acme\"" -> "acme"
    [] a = "\"a]b\"" -> "a]b"
    [] a = "\"hi\"" -> "hi"
    [] OTHER -> a

ScalarKind(a) ==
  IF a \in StringAtoms THEN "string"
  ELSE IF a \in NumberAtoms THEN "number"
  ELSE IF a = "null" THEN "null"
  ELSE "boolean"

EmptyObject == [k \in {} |-> "null"]

\* The characters of a string literal, each as a string literal.
Chars(a) ==
  CASE a = "\"number\"" -> <<"\"n\"", "\"u\"", "\"m\"", "\"b\"", "\"e\"", "\"r\"">>
    [] a = "\"body\"" -> <<"\"b\"", "\"o\"", "\"d\"", "\"y\"">>
    [] a = "\"owner\"" -> <<"\"o\"", "\"w\"", "\"n\"", "\"e\"", "\"r\"">>
    [] a = "\"repo\"" -> <<"\"r\"", "\"e\"", "\"p\"", "\"o\"">>
    [] a = "\"acme\"" -> <<"\"a\"", "\"c\"", "\"m\"", "\"e\"">>
    [] a = "\"hi\"" -> <<"\"h\"", "\"i\"">>
    [] a = "\"a]b\"" -> <<"\"a\"", "\"]\"", "\"b\"">>
    [] OTHER -> << >>

\* The own enumerable properties of a parsed scalar: a string has its
\* characters under "0", "1", ...; numbers, booleans and null have none.
OwnKeys(a) ==
  LET cs == Chars(a)
  IN  [k \in {ToString(i - 1) : i \in 1..Len(cs)} |->
         cs[CHOOSE i \in 1..Len(cs) : ToString(i - 1) = k]]

ParseError == [ok |-> FALSE, kind |-> "error", obj |-> EmptyObject]

\* The atoms of a JSON literal in a text: "]" is an atom of its own.
LiteralAtoms(v) == IF v = "\"a]b\"" THEN <<"\"a", "]", "b\"">> ELSE <<v>>

RECURSIVE LexStrings(_)
\* The parser's tokens: a string literal is one token, also across a "]".
LexStrings(s) ==
  IF s = << >> THEN Empty
  ELSE IF OccursAt(s, LiteralAtoms("\"a]b\""), 1)
  THEN <<"\"a]b\"">> \o LexStrings(Slice(s, 4, Len(s)))
  ELSE <<s[1]>> \o LexStrings(Tail(s))

\* JSON.parse on the tokens s.
ParseTokens(s) ==
  IF Len(s) = 1 /\ s[1] \in ScalarAtoms
  THEN [ok |-> TRUE, kind |-> ScalarKind(s[1]), obj |-> OwnKeys(s[1])]
  ELSE IF Len(s) < 2 \/ s[1] # "{" \/ s[Len(s)] # "}" THEN ParseError
  ELSE LET inner == Slice(s, 2, Len(s) - 1)
           n == (Len(inner) + 1) \div 4
           wellFormed ==
             /\ Len(inner) = 4 * n - 1
             /\ \A i \in 1..n :
                  /\ inner[4 * i - 3] \in StringAtoms
                  /\ inner[4 * i - 2] = ":"
                  /\ inner[4 * i - 1] \in ScalarAtoms
                  /\ i < n => inner[4 * i] = ","
           keys == {Unquote(inner[4 * i - 3]) : i \in 1..n}
           last(k) == CHOOSE i \in 1..n :
                        /\ Unquote(inner[4 * i - 3]) = k
                        /\ \A j \in 1..n : Unquote(inner[4 * j - 3]) = k => j <= i
       IN  IF Len(inner) = 0
           THEN [ok |-> TRUE, kind |-> "object", obj |-> EmptyObject]
           ELSE IF ~wellFormed THEN ParseError
           ELSE [ok |-> TRUE, kind |-> "object",
                 obj |-> [k \in keys |-> inner[4 * last(k) - 1]]]

JSONparse(s) == ParseTokens(LexStrings(s))

(***************************************************************************)
(* String.prototype.replace(searchString, replaceString): the first        *)
(* occurrence only, and the replacement's "$" patterns are expanded        *)
(* (GetSubstitution with no captures: $$, $&, $`, $').                     *)
(***************************************************************************)
\* The atom of the grave accent character (U+0060).
GraveAccent == "<grave accent>"

RECURSIVE GetSubstitution(_, _, _, _)
GetSubstitution(replacement, matched, before, after) ==
  IF replacement = << >> THEN Empty
  ELSE IF replacement[1] = "$" /\ Len(replacement) >= 2
  THEN LET c == replacement[2]
           rest == Slice(replacement, 3, Len(replacement))
       IN  CASE c = "$" -> <<"$">> \o GetSubstitution(rest, matched, before, after)
             [] c = "&" -> matched \o GetSubstitution(rest, matched, before, after)
             [] c = GraveAccent -> before \o GetSubstitution(rest, matched, before, after)
             [] c = "'" -> after \o GetSubstitution(rest, matched, before, after)
             [] OTHER -> <<"$">> \o GetSubstitution(Tail(replacement), matched, before, after)
  ELSE <<replacement[1]>> \o GetSubstitution(Tail(replacement), matched, before, after)

Replace(text, search, replacement) ==
  LET pos == IndexOf(text, search)
  IN  IF pos = 0 THEN text
      ELSE LET before == Slice(text, 1, pos - 1)
               after == Slice(text, pos + Len(search), Len(text))
           IN  before \o GetSubstitution(replacement, search, before, after) \o after

(***************************************************************************)
(* The markers of processToolActions.                                      *)
(***************************************************************************)
\* `[Error: Invalid parameter format for ${toolName}.${actionName}]`
InvalidMarker(toolName, actionName) ==
  <<"[", "Error", ":", " Invalid parameter format for ">> \o toolName
    \o <<".">> \o actionName \o <<"]">>

\* `${toolName}_${actionName}`
ResultKey(toolName, actionName) == toolName \o <<"_">> \o actionName

\* `[${resultKey} completed successfully]`
SuccessMarker(resultKey) ==
  <<"[">> \o resultKey \o <<" completed successfully", "]">>

\* `[${toolName} ${actionName} result: Tool not found]`
NotFoundMarker(toolName, actionName) ==
  <<"[">> \o toolName \o <<" ">> \o actionName
    \o <<" result", ":", " Tool not found", "]">>

\* `[${toolName} ${actionName} result: Error - ${error.message}]`
ErrorMarker(toolName, actionName, message) ==
  <<"[">> \o toolName \o <<" ">> \o actionName
    \o <<" result", ":", " Error - ">> \o message \o <<"]">>

(***************************************************************************)
(* Tools.  A tool instance is named by an id; ToolObj gives its fields.    *)
(***************************************************************************)
\* One entry of an action's `parameters`, as Object.entries yields it.
P(name, required) == [name |-> name, required |-> required]

\* GitHubTool.getAvailableActions(): the catalog, in source order.  The last
\* two actions declare `parameters` as an array, so Object.entries yields the
\* indices as names and the elements carry no `required` field.
GitHubActions ==
  << [name |-> "info", parameters |-> << >>],
     [name |-> "listPRs",
      parameters |-> <<P("state", FALSE), P("limit", FALSE)>>],
     [name |-> "getPR", parameters |-> <<P("number", TRUE)>>],
     [name |-> "listIssues",
      parameters |-> <<P("state", FALSE), P("limit", FALSE)>>],
     [name |-> "getIssue", parameters |-> <<P("number", TRUE)>>],
     [name |-> "reviewCode", parameters |-> <<P("number", TRUE)>>],
     [name |-> "summarizePR", parameters |-> <<P("number", TRUE)>>],
     [name |-> "getChangedFiles", parameters |-> <<P("number", TRUE)>>],
     [name |-> "reviewCode", parameters |-> <<P("number", TRUE)>>],
     [name |-> "createComment",
      parameters |-> <<P("number", TRUE), P("body", TRUE)>>],
     [name |-> "mergePullRequest",
      parameters |-> <<P("0", FALSE), P("1", FALSE), P("2", FALSE),
                       P("3", FALSE), P("4", FALSE)>>],
     [name |-> "declinePullRequest",
      parameters |-> <<P("0", FALSE), P("1", FALSE), P("2", FALSE),
                       P("3", FALSE)>>] >>

\* SlackTool.getAvailableActions(): the catalog, in source order.
SlackActions ==
  << [name |-> "info", parameters |-> << >>],
     [name |-> "sendMessage",
      parameters |-> <<P("channel", TRUE), P("text", TRUE), P("blocks", FALSE)>>],
     [name |-> "getChannels", parameters |-> <<P("limit", FALSE)>>],
     [name |-> "getChannelHistory",
      parameters |-> <<P("channel", TRUE), P("limit", FALSE)>>],
     [name |-> "findUser", parameters |-> <<P("query", TRUE)>>],
     [name |-> "createChannel",
      parameters |-> <<P("name", TRUE), P("is_private", FALSE),
                       P("description", FALSE)>>],
     [name |-> "joinChannel", parameters |-> <<P("channel", TRUE)>>],
     [name |-> "leaveChannel", parameters |-> <<P("channel", TRUE)>>],
     [name |-> "inviteToChannel",
      parameters |-> <<P("channel", TRUE), P("users", TRUE)>>],
     [name |-> "addReaction",
      parameters |-> <<P("channel", TRUE), P("timestamp", TRUE),
                       P("name", TRUE)>>],
     [name |-> "searchMessages",
      parameters |-> <<P("query", TRUE), P("count", FALSE)>>] >>

ToolIds == {"gh", "ut"}

\* gh: a GitHubTool configured as "github" for the repository acme/dock.
\* ut: a tool object without getAvailableActions.
ToolObj(id) ==
  IF id = "gh"
  THEN [name |-> "github", configName |-> "github", className |-> "GitHubTool",
        hasActions |-> TRUE, actions |-> GitHubActions,
        repoOwner |-> "\"acme\"", repoName |-> "\"dock\""]
  ELSE [name |-> "util", configName |-> "util", className |-> "Object",
        hasActions |-> FALSE, actions |-> << >>,
        repoOwner |-> "undefined", repoName |-> "undefined"]

(***************************************************************************)
(* this.tools: a Map, kept as the sequence of its entries in insertion     *)
(* order.                                                                  *)
(***************************************************************************)
MapHas(m, key) == \E i \in 1..Len(m) : m[i].key = key

\* Map.prototype.get: the tool id under key, or "undefined".
MapGet(m, key) ==
  IF MapHas(m, key) THEN m[CHOOSE i \in 1..Len(m) : m[i].key = key].tool
  ELSE "undefined"

\* A set that drops every other entry.
MapSet_Clobbers(m, key, tool) == <<[key |-> key, tool |-> tool]>>

\* Map.prototype.set: an existing key keeps its place.
MapSet(m, key, tool) ==
  IF MapHas(m, key)
  THEN [i \in 1..Len(m) |-> IF m[i].key = key THEN [key |-> key, tool |-> tool]
                                                ELSE m[i]]
  ELSE Append(m, [key |-> key, tool |-> tool])

MapDelete(m, key) == SelectSeq(m, LAMBDA e : e.key # key)

\* A captured token as a map key or a name: names are single atoms.
AsName(token) == IF Len(token) = 1 THEN token[1] ELSE "<no such name>"

\* Array.from(this.tools.values()).some(t =>
\*   t.config.name.toLowerCase() == toolName.toLowerCase())
HasMatchingTool(m, toolName) ==
  \E i \in 1..Len(m) :
    <<LowerAtom(ToolObj(m[i].tool).configName)>> = toLowerCase(toolName)

(***************************************************************************)
(* Validation and enhancement.                                             *)
(***************************************************************************)
NoAction == [name |-> "<null>", parameters |-> << >>]

\* An action that is not found answered with a descriptor that requires a
\* parameter, as if every action had to be declared.
GetActionInfo_Undeclared(tool, actionName) ==
  LET acts == ToolObj(tool).actions
      hits == {i \in 1..Len(acts) : <<acts[i].name>> = actionName}
  IN  IF hits = {} THEN [name |-> "<null>", parameters |-> <<P("action", TRUE)>>]
      ELSE acts[CHOOSE i \in hits : \A j \in hits : i <= j]

\* getActionInfo(tool, actionName): the first action of that name, else null.
\* (Called with tool = undefined it throws; the caller decides that first.)
GetActionInfo(tool, actionName) ==
  IF ~ToolObj(tool).hasActions THEN NoAction
  ELSE LET acts == ToolObj(tool).actions
           hits == {i \in 1..Len(acts) : <<acts[i].name>> = actionName}
       IN  IF hits = {} THEN NoAction
           ELSE acts[CHOOSE i \in hits : \A j \in hits : i <= j]

\* The presence test as !params[paramName].
IsAbsent_Falsy(parsed, name) ==
  \/ name \notin DOMAIN parsed.obj
  \/ parsed.obj[name] \in {"null", "false", "0", "\"\""}

\* params[paramName] === undefined || params[paramName] === null
IsAbsent(parsed, name) ==
  \/ name \notin DOMAIN parsed.obj
  \/ parsed.obj[name] = "null"

\* checkRequiredParameters(actionInfo, params): the required names that are
\* absent, in schema order.
CheckRequiredParameters(actionInfo, parsed) ==
  LET req == SelectSeq(actionInfo.parameters,
                       LAMBDA p : p.required /\ IsAbsent(parsed, p.name))
  IN  [i \in 1..Len(req) |-> req[i].name]

\* params[paramName] on params = null throws a TypeError, as soon as one
\* parameter is marked required.
CheckThrows(actionInfo, parsed) ==
  /\ parsed.kind = "null"
  /\ \E i \in 1..Len(actionInfo.parameters) : actionInfo.parameters[i].required

\* !value
Falsy(v) == v \in {"undefined", "null", "false", "0", "\"\""}

Lookup(obj, key) == IF key \in DOMAIN obj THEN obj[key] ELSE "undefined"

\* obj with obj[key] = value
SetKey(obj, key, value) ==
  [k \in (DOMAIN obj) \cup {key} |-> IF k = key THEN value ELSE obj[k]]

\* enhanceToolParameters(tool, actionName, params, toolParams)
EnhanceToolParameters(tool, actionName, parsed, toolParams) ==
  LET e0 == parsed.obj
      t == ToolObj(tool)
      e1 == IF t.className = "GitHubTool" /\ Falsy(Lookup(e0, "owner"))
               /\ ~Falsy(t.repoOwner)
            THEN SetKey(e0, "owner", t.repoOwner) ELSE e0
      e2 == IF t.className = "GitHubTool" /\ Falsy(Lookup(e1, "repo"))
               /\ ~Falsy(t.repoName)
            THEN SetKey(e1, "repo", t.repoName) ELSE e1
  IN  [k \in (DOMAIN e2) \cup (DOMAIN toolParams) |->
         IF k \in DOMAIN e2 THEN e2[k] ELSE toolParams[k]]

(***************************************************************************)
(* processToolActions: the loop body between two suspension points.        *)
(***************************************************************************)
\* error.message of `throw new Error(`Missing required parameters for ...`)`
MissingMessage(actionName, missing) ==
  <<"Missing required parameters for ">> \o actionName \o <<":", " ">>
    \o Join([i \in 1..Len(missing) |-> <<missing[i]>>], <<",", " ">>)

\* error.message of the TypeError of `typeof tool.getAvailableActions` on
\* tool = undefined.
UndefinedToolMessage ==
  <<"Cannot read properties of undefined (reading ", "'",
    "getAvailableActions", "'", ")">>

\* error.message of the TypeError of params[paramName] on params = null.
NullParamsMessage(actionInfo) ==
  LET req == SelectSeq(actionInfo.parameters, LAMBDA p : p.required)
  IN  <<"Cannot read properties of null (reading ", "'", req[1].name, "'", ")">>

\* What one tag comes to before anything is awaited:
\*   "invalid"  JSON.parse threw, "notfound" no tool matches,
\*   "error"    an exception reached the outer catch (message given),
\*   "execute"  tool.execute is called with the enhanced parameters.
Decision(kind, tool, missing, message, params) ==
  [kind |-> kind, tool |-> tool, missing |-> missing, message |-> message,
   params |-> params]

\* missingParams.length > 0 throws; otherwise the parameters are enhanced
\* and tool.execute is called.
DecideMissing(toolParams, m, parsed, tool, missing) ==
  IF Len(missing) > 0
  THEN Decision("error", tool, missing,
                MissingMessage(m.actionName, missing), EmptyObject)
  ELSE Decision("execute", tool, << >>, Empty,
                EnhanceToolParameters(tool, m.actionName, parsed, toolParams))

\* The validator run on the enhanced parameters instead of the parsed ones.
DecideAction_ValidatesEnhanced(toolParams, m, parsed, tool, actionInfo) ==
  IF CheckThrows(actionInfo, parsed)
  THEN Decision("error", tool, << >>, NullParamsMessage(actionInfo), EmptyObject)
  ELSE DecideMissing(toolParams, m, parsed, tool,
         CheckRequiredParameters(actionInfo,
           [parsed EXCEPT !.obj = EnhanceToolParameters(tool, m.actionName,
                                                         parsed, toolParams)]))

\* checkRequiredParameters(actionInfo, params)
DecideAction(toolParams, m, parsed, tool, actionInfo) ==
  IF CheckThrows(actionInfo, parsed)
  THEN Decision("error", tool, << >>, NullParamsMessage(actionInfo), EmptyObject)
  ELSE DecideMissing(toolParams, m, parsed, tool,
                     CheckRequiredParameters(actionInfo, parsed))

\* const tool = this.tools.get(toolName); getActionInfo(tool, actionName)
DecideTool(toolParams, m, parsed, tool) ==
  IF tool = "undefined"
  THEN Decision("error", "undefined", << >>, UndefinedToolMessage, EmptyObject)
  ELSE DecideAction(toolParams, m, parsed, tool,
                    GetActionInfo(tool, m.actionName))

\* JSON.parse(paramsStr), then hasMatchingTool
DecideParsed(registry, toolParams, m, parsed) ==
  IF ~parsed.ok
  THEN Decision("invalid", "undefined", << >>, Empty, EmptyObject)
  ELSE IF ~HasMatchingTool(registry, m.toolName)
  THEN Decision("notfound", "undefined", << >>, Empty, EmptyObject)
  ELSE DecideTool(toolParams, m, parsed, MapGet(registry, AsName(m.toolName)))

Decide(registry, toolParams, m) ==
  DecideParsed(registry, toolParams, m, JSONparse(m.paramsStr))

\* The marker a tag is rewritten with when no call is awaited for it.
MarkerOf(m, d) ==
  CASE d.kind = "invalid" -> InvalidMarker(m.toolName, m.actionName)
    [] d.kind = "notfound" -> NotFoundMarker(m.toolName, m.actionName)
    [] OTHER -> ErrorMarker(m.toolName, m.actionName, d.message)

\* One entry of the history of processed tags.
\* registry is this.tools as the tag was looked up; result is what
\* tool.execute resolved to, "none" if it did not.
LogEntry(m, d, kind, marker, registry, result) ==
  [index |-> m.index, fullMatch |-> m.fullMatch, toolName |-> m.toolName,
   actionName |-> m.actionName, paramsStr |-> m.paramsStr, kind |-> kind,
   marker |-> marker, tool |-> d.tool, missing |-> d.missing,
   registry |-> registry, result |-> result]

\* The loop state after a tag is rewritten with marker.
Rewritten(L, m, d, kind, marker, registry, result) ==
  [text |-> Replace(L.text, m.fullMatch, marker),
   from |-> m.end + 1,
   log  |-> Append(L.log, LogEntry(m, d, kind, marker, registry,
                                      result))]

RECURSIVE RunLoop(_, _, _, _)
RECURSIVE LoopBody(_, _, _, _, _)
RECURSIVE Dispatch(_, _, _, _, _, _)

\* The loop with the regex run on the rewritten buffer.
RunLoop_ScansBuffer(response, registry, toolParams, L) ==
  LoopBody(response, registry, toolParams, L, RegexExec(L.text, L.from))

\* The while loop from lastIndex = L.from - 1 until tool.execute is awaited
\* or the regex finds no further tag.  L = [text, from, log].
RunLoop(response, registry, toolParams, L) ==
  LoopBody(response, registry, toolParams, L, RegexExec(response, L.from))

\* while ((match = toolActionRegex.exec(response)) !== null) { ... }
LoopBody(response, registry, toolParams, L, m) ==
  IF ~m.found THEN [await |-> FALSE, L |-> L]
  ELSE Dispatch(response, registry, toolParams, L, m,
                Decide(registry, toolParams, m))

\* One iteration: either tool.execute is awaited, or the tag is rewritten
\* and the loop goes on.
Dispatch(response, registry, toolParams, L, m, d) ==
  IF d.kind = "execute"
  THEN [await |-> TRUE, L |-> [L EXCEPT !.from = m.end + 1], m |-> m, d |-> d]
  ELSE RunLoop(response, registry, toolParams,
               Rewritten(L, m, d, d.kind, MarkerOf(m, d), registry, "none"))

\* Every stored result appended as a new entry.
SetResult_Appends(results, key, result) ==
  Append(results, [key |-> key, result |-> result])

\* toolResults[resultKey] = result: an object keeps a key's first position.
SetResult(results, key, result) ==
  IF \E i \in 1..Len(results) : results[i].key = key
  THEN [i \in 1..Len(results) |->
          IF results[i].key = key THEN [key |-> key, result |-> result]
          ELSE results[i]]
  ELSE Append(results, [key |-> key, result |-> result])

(***************************************************************************)
(* The fast-path intents.  A query is a sequence of tokens; a token stands *)
(* for a run of characters without a blank, or for one of the multi-word   *)
(* alternatives of a pattern; "#" is written as its own token, the others  *)
(* are separated by one blank.  Patterns are sequences of slots.           *)
(***************************************************************************)
Lit(words) == [class |-> "lit", words |-> words, opt |-> FALSE, cap |-> FALSE]
Opt(words) == [class |-> "lit", words |-> words, opt |-> TRUE, cap |-> FALSE]
Digits == [class |-> "digits", words |-> {}, opt |-> FALSE, cap |-> TRUE]
Word == [class |-> "word", words |-> {}, opt |-> FALSE, cap |-> TRUE]
Rest == [class |-> "rest", words |-> {}, opt |-> FALSE, cap |-> TRUE]

\* \d+
IsDigits(t) == t \in {"0", "7", "42"}

\* \w+
IsWord(t) == t \notin {"#", "pull request", "tell me about", "!"}

Fits(slot, t) ==
  CASE slot.class = "lit" -> LowerAtom(t) \in slot.words
    [] slot.class = "digits" -> IsDigits(t)
    [] slot.class = "word" -> IsWord(t)
    [] OTHER -> TRUE

Fail == [ok |-> FALSE, caps |-> << >>]

RECURSIVE MatchFrom(_, _, _, _)
\* The backtracking match of slots[k..] at token i: an optional slot is
\* tried taken first, then skipped.
MatchFrom(q, i, slots, k) ==
  IF k > Len(slots) THEN [ok |-> TRUE, caps |-> << >>]
  ELSE LET slot == slots[k] IN
    IF slot.class = "rest"
    THEN IF i <= Len(q) THEN [ok |-> TRUE, caps |-> <<Slice(q, i, Len(q))>>]
         ELSE Fail
    ELSE LET taken == IF i <= Len(q) /\ Fits(slot, q[i])
                      THEN MatchFrom(q, i + 1, slots, k + 1) ELSE Fail
         IN  IF taken.ok
             THEN [ok |-> TRUE,
                   caps |-> (IF slot.cap THEN <<q[i]>> ELSE << >>) \o taken.caps]
             ELSE IF slot.opt THEN MatchFrom(q, i, slots, k + 1)
             ELSE Fail

\* query.match(pattern): the match at the leftmost start, or no match.
RegexMatch(q, slots) ==
  LET starts == {i \in 1..Len(q) : MatchFrom(q, i, slots, 1).ok}
  IN  IF starts = {} THEN Fail
      ELSE MatchFrom(q, CHOOSE i \in starts : \A j \in starts : i <= j, slots, 1)

\* The summary pattern without its "pull request" alternative.
prSummaryPattern_AbbreviationOnly ==
  << Lit({"summarize", "summarise", "show", "explain", "tell me about"}),
     Lit({"pr"}), Opt({"#"}), Digits >>

\* /(?:summarize|summarise|show|explain|tell me about) (?:pull request|PR) #?(\d+)/i
prSummaryPattern ==
  << Lit({"summarize", "summarise", "show", "explain", "tell me about"}),
     Lit({"pull request", "pr"}), Opt({"#"}), Digits >>

\* /(?:review|analyze|analyse) (?:code|changes|pull request|PR) #?(\d+)/i
codeReviewPattern ==
  << Lit({"review", "analyze", "analyse"}),
     Lit({"code", "changes", "pull request", "pr"}), Opt({"#"}), Digits >>

\* /send (?:a )?message to (?:channel )?(?:#)?(\w+) saying (.+)/i
sendMessagePattern ==
  << Lit({"send"}), Opt({"a"}), Lit({"message"}), Lit({"to"}),
     Opt({"channel"}), Opt({"#"}), Word, Lit({"saying"}), Rest >>

\* /(?:get|show|tell me about) (?:channel|conversation) (?:#)?(\w+)/i
getChannelInfoPattern ==
  << Lit({"get", "show", "tell me about"}), Lit({"channel", "conversation"}),
     Opt({"#"}), Word >>

\* /create (?:a )?(?:new )?channel (?:called )?(?:#)?(\w+)/i
createChannelPattern ==
  << Lit({"create"}), Opt({"a"}), Opt({"new"}), Lit({"channel"}),
     Opt({"called"}), Opt({"#"}), Word >>

\* The if-chain with the later patterns tested first.
Intent_LastMatchWins(kind, q) ==
  CASE kind = "github" ->
         IF RegexMatch(q, codeReviewPattern).ok THEN "reviewCode"
         ELSE IF RegexMatch(q, prSummaryPattern).ok THEN "summarizePR"
         ELSE "none"
    [] kind = "slack" ->
         IF RegexMatch(q, createChannelPattern).ok THEN "createChannel"
         ELSE IF RegexMatch(q, getChannelInfoPattern).ok THEN "channelInfo"
         ELSE IF RegexMatch(q, sendMessagePattern).ok THEN "sendMessage"
         ELSE "none"
    [] OTHER -> "none"

\* The intent a specialized agent handles the query with: the first pattern
\* of its if-chain that matches, "none" when the query goes to the model.
Intent(kind, q) ==
  CASE kind = "github" ->
         IF RegexMatch(q, prSummaryPattern).ok THEN "summarizePR"
         ELSE IF RegexMatch(q, codeReviewPattern).ok THEN "reviewCode"
         ELSE "none"
    [] kind = "slack" ->
         IF RegexMatch(q, sendMessagePattern).ok THEN "sendMessage"
         ELSE IF RegexMatch(q, getChannelInfoPattern).ok THEN "channelInfo"
         ELSE IF RegexMatch(q, createChannelPattern).ok THEN "createChannel"
         ELSE "none"
    [] OTHER -> "none"

\* Array.from(this.tools.values()).find(tool =>
\*   tool.name === "github" || tool.name.includes("github"))
FindGitHubTool(m) ==
  LET hits == {i \in 1..Len(m) : ToolObj(m[i].tool).name = "github"}
  IN  IF hits = {} THEN "undefined"
      ELSE m[CHOOSE i \in hits : \A j \in hits : i <= j].tool

(***************************************************************************)
(* Inputs.                                                                 *)
(***************************************************************************)
\* [TOOL_ACTION:<tool>:<action>:<params>]
Tag(tool, action, params) ==
  <<"[", "TOOL_ACTION", ":">> \o tool \o <<":">> \o action \o <<":">>
    \o params \o <<"]">>

NumberParams == <<"{", "\"number\"", ":", "42", "}">>

TagOk == Tag(<<"github", "Tool">>, <<"getPR">>, NumberParams)
TagNoParams == Tag(<<"github">>, <<"getPR">>, <<"{", "}">>)
TagMissingTwo == Tag(<<"github">>, <<"createComment">>, <<"{", "}">>)
TagTruncated == Tag(<<"github">>, <<"getPR">>, <<"{", "\"number\"", ":", "42">>)
TagUnknownTool == Tag(<<"jira">>, <<"getPR">>, NumberParams)
TagDollar == Tag(<<"$", "&">>, <<"getPR">>, NumberParams)
TagUpperCase == Tag(<<"GitHub">>, <<"getPR">>, NumberParams)
TagQuote == Tag(<<"$", "'">>, <<"getPR">>, NumberParams)

TagSet == {TagOk, TagNoParams, TagMissingTwo, TagTruncated, TagUnknownTool,
           TagDollar, TagUpperCase, TagQuote}

\* Tags that exercise the parameter handling of a resolved tool.
TagEmptyOwner ==
  Tag(<<"github">>, <<"getPR">>,
      <<"{", "\"number\"", ":", "42", ",", "\"owner\"", ":", "\"\"", "}">>)

\* The keys of the parameter objects, in the order they are written.
KeySeq == <<"number", "body", "owner", "repo">>

Quote(k) == "\"" \o k \o "\""

RECURSIVE StringifyFrom(_, _, _)
\* The members of obj for the keys KeySeq[i..], comma-separated.
StringifyFrom(obj, i, first) ==
  IF i > Len(KeySeq) THEN Empty
  ELSE IF KeySeq[i] \notin DOMAIN obj THEN StringifyFrom(obj, i + 1, first)
  ELSE (IF first THEN Empty ELSE <<",">>)
         \o <<Quote(KeySeq[i]), ":">> \o LiteralAtoms(obj[KeySeq[i]])
         \o StringifyFrom(obj, i + 1, FALSE)

\* JSON.stringify(obj) of a flat object.
Stringify(obj) == <<"{">> \o StringifyFrom(obj, 1, TRUE) \o <<"}">>

\* A (tool, action, params) triple written in the tag syntax.
Serialize(tr) == Tag(tr.tool, tr.action, Stringify(tr.params))

Triple(tool, action, params) ==
  [tool |-> tool, action |-> action, params |-> params]

\* Invocations a completion may carry.
Triples ==
  {Triple(<<"github">>, <<"getPR">>, [k \in {"number"} |-> "42"]),
   Triple(<<"github">>, <<"getPR">>, EmptyObject),
   Triple(<<"github">>, <<"createComment">>,
          [k \in {"number", "body"} |->
             IF k = "number" THEN "42" ELSE "\"a]b\""])}

\* Parameter text that is valid JSON but no object.
TagScalar == Tag(<<"github">>, <<"info">>, <<"42">>)

\* The tool token with the suffix in capitals.
TagUpperSuffix == Tag(<<"github", "TOOL">>, <<"getPR">>, NumberParams)

\* Required parameters given as false and "", and as 0 and null.
TagFalsy ==
  Tag(<<"github">>, <<"createComment">>,
      <<"{", "\"number\"", ":", "false", ",", "\"body\"", ":", "\"\"", "}">>)
TagZeroNull ==
  Tag(<<"github">>, <<"createComment">>,
      <<"{", "\"number\"", ":", "0", ",", "\"body\"", ":", "null", "}">>)

ParamTagSet ==
  {TagOk, TagEmptyOwner, TagScalar, TagUpperSuffix, TagFalsy, TagZeroNull}
    \cup {Serialize(tr) : tr \in Triples}

RECURSIVE TextOf(_)
\* A completion: prose with the given tags embedded.
TextOf(tags) ==
  IF tags = << >> THEN <<"Done.">>
  ELSE <<"Then ">> \o tags[1] \o <<" ">> \o TextOf(Tail(tags))

TagSeqs == UNION {[1..n -> TagSet] : n \in 0..MaxTags}

\* The completions of the generic protocol.
Texts == {TextOf(ts) : ts \in TagSeqs}

\* The completions made of the parameter-handling tags.
ParamTexts ==
  {TextOf(ts) : ts \in UNION {[1..n -> ParamTagSet] : n \in 0..MaxTags}}

\* The completions offered where the tag protocol is not the subject.
ShortTexts == {TextOf(<< >>), TextOf(<<TagOk>>)}

\* The caller's context map (toolParams).
Contexts == {EmptyObject, [k \in {"number"} |-> "7"]}

\* What tool.execute may resolve to, and the messages it may fail with.
ExecResults == {[success |-> TRUE], [success |-> FALSE]}
Messages == {<<"Failed to get PR">>, <<"rate ", "$", "&", " exceeded">>}

QSummarize == <<"summarize", "pull request", "#", "42">>
QRundown == <<"give", "a", "rundown", "of", "PR", "42", "please">>
QReview == <<"Review", "PR", "7">>
QSend == <<"send", "a", "message", "to", "#", "general", "saying", "hi", "all">>
QChannel == <<"show", "channel", "general">>
QCreate == <<"Create", "a", "new", "channel", "called", "ops">>

\* Queries that match two patterns of one agent, the later pattern first in
\* the text.
QReviewThenSummarize == <<"Review", "PR", "7", "and", "Summarize", "PR", "42">>
QCreateThenSend ==
  <<"Create", "channel", "ops", "and", "Send", "message", "to", "general",
    "saying", "hi">>

Queries == {QSummarize, QRundown, QReview, QSend, QChannel, QCreate,
            QReviewThenSummarize, QCreateThenSend}

\* registerTool(name, tool) as the callers may issue it.
Registrations == {<<"github", "gh">>, <<"GitHub", "gh">>, <<"util", "ut">>}
RegistryKeys == {r[1] : r \in Registrations}

\* The agents: BaseAgent, GitHubAgent (acme/dock), SlackAgent with and
\* without a Slack token.
Agents == {[kind |-> "base", hasClient |-> FALSE],
           [kind |-> "github", hasClient |-> FALSE],
           [kind |-> "slack", hasClient |-> TRUE],
           [kind |-> "slack", hasClient |-> FALSE]}

(***************************************************************************)
(* State.                                                                  *)
(***************************************************************************)
VARIABLES
  agent,             \* the agent instance: its class and whether this.client is set
  tools,             \* this.tools
  regOps,            \* number of registerTool / deregisterTool calls so far
  pc,                \* where processQuery stands
  query,             \* processQuery's query
  toolParams,        \* processQuery's toolParams
  fast,              \* the fast-path call that is awaited
  response,          \* processToolActions' response (the completion)
  processedResponse, \* processToolActions' processedResponse
  lastIndex,         \* toolActionRegex.lastIndex
  toolResults,       \* processToolActions' toolResults
  call,              \* the tool.execute call that is awaited
  tagLog,            \* history: the tags handled so far, in order
  execLog,           \* history: the tool.execute calls started so far
  inflight,          \* history: the tool.execute calls started and not settled
  modelCalls,        \* history: number of model-completion calls
  outcome,           \* what processQuery returned or threw
  peer,              \* a second processQuery call on the same agent: its locals
  other,             \* a second agent: its this.tools and the calls made on it
  regLog             \* history: the registry calls and what they returned

vars == <<agent, tools, regOps, pc, query, toolParams, fast, response,
          processedResponse, lastIndex, toolResults, call, tagLog, execLog,
          inflight, modelCalls, outcome, peer, other, regLog>>

NoCall == [active |-> FALSE]
\* fast.info: "none" while the call is awaited, then "full" or "partial"
\* (how it resolved) or "failed" (it rejected).
NoFast == [intent |-> "none", step |-> 0, tool |-> "undefined", info |-> "none"]
NoOutcome == [result |-> "pending"]
\* The locals of a processQuery call that has not started.
NoPeer == [pc |-> "idle", toolParams |-> EmptyObject, response |-> Empty,
           processedResponse |-> Empty, lastIndex |-> 0, toolResults |-> << >>,
           call |-> NoCall, tagLog |-> << >>, outcome |-> NoOutcome]

\* A second agent as constructed: this.tools = new Map().
NoOther == [tools |-> << >>, ops |-> 0]
\* The history of registry calls, kept (on) where the registry is the subject.
NoRegLog == [on |-> FALSE, ops |-> << >>]
EmptyRegLog == [on |-> TRUE, ops |-> << >>]

\* processQuery is suspended at an await, or not running.
Suspended == pc \in {"idle", "fast", "model", "exec"}

InitWith(agents) ==
  /\ agent \in agents
  /\ tools = << >>
  /\ regOps = 0
  /\ pc = "idle"
  /\ query = << >>
  /\ toolParams = EmptyObject
  /\ fast = NoFast
  /\ response = Empty
  /\ processedResponse = Empty
  /\ lastIndex = 0
  /\ toolResults = << >>
  /\ call = NoCall
  /\ tagLog = << >>
  /\ execLog = << >>
  /\ inflight = {}
  /\ modelCalls = 0
  /\ outcome = NoOutcome
  /\ peer = NoPeer
  /\ other = NoOther

Init == InitWith(Agents) /\ regLog = NoRegLog

queryVars == <<pc, query, toolParams, fast, response, processedResponse,
               lastIndex, toolResults, call, tagLog, execLog, inflight,
               modelCalls, outcome>>

(***************************************************************************)
(* The registry operations.                                                *)
(***************************************************************************)
\* One registry call in the history: what it returned and this agent's
\* registry before and after it.
RegEntry(who, op, name, tool, returned, before, after) ==
  [agent |-> who, op |-> op, name |-> name, tool |-> tool,
   returned |-> returned, before |-> before, after |-> after]

\* The number of registry calls explored: one more where the registry is
\* the subject.
RegCap == IF regLog.on THEN MaxRegOps + 1 ELSE MaxRegOps

Logged(log, e) == IF log.on THEN [log EXCEPT !.ops = Append(@, e)] ELSE log

\* registerTool(name, tool)
RegisterTool(name, tool) ==
  /\ Suspended
  /\ regOps < RegCap
  /\ tools' = MapSet(tools, name, tool)
  /\ regOps' = regOps + 1
  /\ regLog' = Logged(regLog, RegEntry("this", "register", name, tool,
                                       "undefined", tools, tools'))
  /\ UNCHANGED <<agent, peer, other, queryVars>>

\* deregisterTool(name)
DeregisterTool(name) ==
  /\ Suspended
  /\ regOps < RegCap
  /\ tools' = IF MapHas(tools, name) THEN MapDelete(tools, name) ELSE tools
  /\ regOps' = regOps + 1
  /\ regLog' = Logged(regLog, RegEntry("this", "deregister", name, "undefined",
                                       IF MapHas(tools, name) THEN "true"
                                       ELSE "false", tools, tools'))
  /\ UNCHANGED <<agent, peer, other, queryVars>>

\* this.tools of this agent after a call on the second agent, were the two
\* agents given one Map.
ThisTools_SharedMap(own, others) == others

\* this.tools of this agent after a call on the second agent: each
\* constructor call makes its own Map, so it is what it was.
ThisTools(own, others) == own

\* registerTool(name, tool) called on the second agent.
OtherRegisterTool(name, tool) ==
  /\ Suspended
  /\ other.ops < MaxRegOps
  /\ other' = [tools |-> MapSet(other.tools, name, tool), ops |-> other.ops + 1]
  /\ tools' = ThisTools(tools, other'.tools)
  /\ regLog' = Logged(regLog, RegEntry("other", "register", name, tool,
                                       "undefined", tools, tools'))
  /\ UNCHANGED <<agent, peer, regOps, queryVars>>

\* deregisterTool(name) called on the second agent.
OtherDeregisterTool(name) ==
  /\ Suspended
  /\ other.ops < MaxRegOps
  /\ other' = [tools |-> IF MapHas(other.tools, name)
                         THEN MapDelete(other.tools, name) ELSE other.tools,
               ops |-> other.ops + 1]
  /\ tools' = ThisTools(tools, other'.tools)
  /\ regLog' = Logged(regLog, RegEntry("other", "deregister", name, "undefined",
                                       IF MapHas(other.tools, name) THEN "true"
                                       ELSE "false", tools, tools'))
  /\ UNCHANGED <<agent, peer, regOps, queryVars>>

(***************************************************************************)
(* processQuery.                                                           *)
(***************************************************************************)
Returned(path, kind, text, results) ==
  [result |-> "returned", path |-> path, kind |-> kind, response |-> text,
   toolResults |-> results]

Threw(message) ==
  [result |-> "threw", path |-> "generic", kind |-> "modelFailure",
   response |-> message, toolResults |-> << >>]

\* The fixed response of a fast path whose collaborator is missing.
UnavailableText(intent) ==
  CASE intent \in {"summarizePR", "reviewCode"} ->
         <<"I can't access GitHub right now. Please make sure the GitHub tool is registered.">>
    [] intent = "sendMessage" ->
         <<"Cannot send message", ":", " Slack client not initialized">>
    [] intent = "channelInfo" ->
         <<"Cannot get channel info", ":", " Slack client not initialized">>
    [] OTHER ->
         <<"Cannot create channel", ":", " Slack client not initialized">>

\* The hand-templated report of a fast path that succeeded.
ReportText(intent) ==
  CASE intent = "summarizePR" -> <<"# Pull Request Summary">>
    [] intent = "reviewCode" -> <<"# Code Review">>
    [] intent = "sendMessage" -> <<"Message sent">>
    [] intent = "channelInfo" -> <<"Channel ", "#">>
    [] OTHER -> <<"Channel has been created successfully!">>

\* The response of a fast path whose call failed inside its own try block.
DegradedText(intent, message) ==
  (CASE intent = "summarizePR" -> <<"I encountered an error trying to summarize PR">>
     [] intent = "reviewCode" -> <<"I encountered an error trying to review PR">>
     [] intent = "channelInfo" -> <<"Couldn't get information for channel">>
     [] OTHER -> <<"Failed to create channel">>)
    \o <<":", " ">> \o message

\* error.message of the TypeError of formatting a result without its data.
ShapeMessage == <<"Cannot read properties of undefined">>

\* this.generateCompletion(query, toolParams) is called and awaited.
EnterGeneric ==
  /\ pc' = "model"
  /\ modelCalls' = modelCalls + 1
  /\ UNCHANGED <<response, processedResponse, lastIndex, toolResults, call,
                 tagLog, execLog, inflight, outcome>>

\* The keys of the toolResults a fast path returns, with a key where the
\* collaborator is missing.
FastResults_KeyedUnavailable(kind, intent) ==
  <<[key |-> "error", result |-> "message"]>>

\* The toolResults a fast path returns: {} when the collaborator is
\* missing and when a GitHub call failed, { error } when a Slack call
\* failed, else the results under the keys of the intent.
FastResults(kind, intent) ==
  CASE kind = "unavailable" -> << >>
    [] kind = "degraded" ->
         IF intent \in {"summarizePR", "reviewCode"} THEN << >>
         ELSE <<[key |-> "error", result |-> "message"]>>
    [] intent = "summarizePR" -> <<[key |-> "summary", result |-> "resolved"]>>
    [] intent = "reviewCode" -> <<[key |-> "review", result |-> "resolved"]>>
    [] intent = "sendMessage" ->
         <<[key |-> "slack_sendMessage", result |-> "resolved"]>>
    [] intent = "channelInfo" ->
         <<[key |-> "channelInfo", result |-> "resolved"],
           [key |-> "history", result |-> "resolved"]>>
    [] OTHER -> <<[key |-> "slack_createChannel", result |-> "resolved"]>>

\* processQuery returns from the fast path.
FinishFast(kind, intent, text) ==
  /\ pc' = "done"
  /\ outcome' = Returned("fast", kind, text, FastResults(kind, intent))
  /\ UNCHANGED <<response, processedResponse, lastIndex, toolResults, call,
                 tagLog, modelCalls>>

\* processQuery(query, toolParams) up to its first await: the pattern
\* matcher of the agent's class, then the direct call or the model call.
ProcessQuery(q, tp) ==
  /\ pc = "idle"
  /\ query' = q
  /\ toolParams' = tp
  /\ LET intent == Intent(agent.kind, q)
         ghTool == FindGitHubTool(tools)
     IN  IF intent = "none"
         THEN EnterGeneric /\ fast' = NoFast
         ELSE IF agent.kind = "github" /\ ghTool = "undefined"
         THEN /\ FinishFast("unavailable", intent, UnavailableText(intent))
              /\ fast' = [NoFast EXCEPT !.intent = intent]
              /\ UNCHANGED <<execLog, inflight>>
         ELSE IF agent.kind = "github"
         THEN /\ pc' = "fast"
              /\ fast' = [intent |-> intent, step |-> 1, tool |-> ghTool,
                           info |-> "none"]
              /\ execLog' = Append(execLog,
                   [tag |-> 0, tool |-> ghTool, action |-> <<intent>>,
                    params |-> [k \in {"owner", "repo", "number"} |->
                      CASE k = "owner" -> "\"acme\""
                        [] k = "repo" -> "\"dock\""
                        [] OTHER -> RegexMatch(q,
                             IF intent = "summarizePR" THEN prSummaryPattern
                             ELSE codeReviewPattern).caps[1]]])
              /\ inflight' = inflight \cup {0}
              /\ UNCHANGED <<response, processedResponse, lastIndex,
                             toolResults, call, tagLog, modelCalls, outcome>>
         ELSE IF ~agent.hasClient
         THEN /\ FinishFast("unavailable", intent, UnavailableText(intent))
              /\ fast' = [NoFast EXCEPT !.intent = intent]
              /\ UNCHANGED <<execLog, inflight>>
         ELSE /\ pc' = "fast"
              /\ fast' = [intent |-> intent, step |-> 1, tool |-> "undefined",
                           info |-> "none"]
              /\ UNCHANGED <<response, processedResponse, lastIndex,
                             toolResults, call, tagLog, execLog, inflight,
                             modelCalls, outcome>>
  /\ UNCHANGED <<agent, peer, other, regLog, tools, regOps>>

\* The awaited fast-path call resolves; wellFormed tells whether the result
\* carries the fields the report reads.
FastReturns(wellFormed) ==
  /\ pc = "fast"
  /\ IF fast.intent = "channelInfo" /\ fast.step = 1
     THEN \* conversations.info resolved: conversations.history is awaited
          /\ fast' = [fast EXCEPT !.step = 2,
                                  !.info = IF wellFormed THEN "full" ELSE "partial"]
          /\ UNCHANGED <<pc, response, processedResponse, lastIndex,
                         toolResults, call, tagLog, execLog, inflight,
                         modelCalls, outcome>>
     ELSE LET ok == CASE fast.intent = "sendMessage" -> TRUE
                      [] fast.intent = "channelInfo" -> fast.info = "full"
                      [] OTHER -> wellFormed
          IN  /\ IF ok THEN FinishFast("report", fast.intent, ReportText(fast.intent))
                 ELSE FinishFast("degraded", fast.intent,
                                 DegradedText(fast.intent, ShapeMessage))
              /\ fast' = [fast EXCEPT !.info = IF wellFormed THEN "full"
                                                ELSE "partial"]
              /\ inflight' = inflight \ {0}
              /\ UNCHANGED execLog
  /\ UNCHANGED <<agent, peer, other, regLog, tools, regOps, query, toolParams>>

\* Every rejected fast-path call handled as sendMessage's is: the pattern
\* matcher returns null and the query goes to the model.
FastFails_FallsBack(message) ==
  /\ pc = "fast"
  /\ fast' = [fast EXCEPT !.info = "failed"]
  /\ EnterGeneric
  /\ UNCHANGED <<agent, peer, other, regLog, tools, regOps, query, toolParams>>

\* The awaited fast-path call rejects with an Error.  Only sendMessage is
\* awaited outside an inner try: the outer catch of processSlackQuery
\* returns null and processQuery goes on to super.processQuery.
FastFails(message) ==
  /\ pc = "fast"
  /\ fast' = [fast EXCEPT !.info = "failed"]
  /\ IF fast.intent = "sendMessage"
     THEN EnterGeneric
     ELSE /\ FinishFast("degraded", fast.intent,
                     DegradedText(fast.intent, message))
          /\ inflight' = inflight \ {0}
          /\ UNCHANGED execLog
  /\ UNCHANGED <<agent, peer, other, regLog, tools, regOps, query, toolParams>>

\* The loop going on without tool.execute having been awaited.
Settled_NotAwaited == {}

\* The tool.execute call that settles when processToolActions resumes.
Settled == IF call.active THEN {call.tag} ELSE {}

\* processToolActions after the loop ran to r: tool.execute is awaited, or
\* the function returns, which is processQuery's return.
Resume(r, tag, results) ==
  /\ processedResponse' = r.L.text
  /\ lastIndex' = r.L.from - 1
  /\ tagLog' = r.L.log
  /\ toolResults' = results
  /\ IF r.await
     THEN /\ pc' = "exec"
          /\ call' = [active |-> TRUE, tag |-> tag, m |-> r.m, d |-> r.d,
                       registry |-> tools]
          /\ execLog' = Append(execLog,
               [tag |-> tag, tool |-> r.d.tool, action |-> r.m.actionName,
                params |-> r.d.params])
          /\ inflight' = (inflight \ Settled) \cup {tag}
          /\ outcome' = outcome
     ELSE /\ pc' = "done"
          /\ call' = NoCall
          /\ execLog' = execLog
          /\ inflight' = inflight \ Settled
          /\ outcome' = Returned("generic", "rewritten", r.L.text, results)

ResumeAt(r, results) == Resume(r, Len(r.L.log) + 1, results)

\* processToolActions goes on from loop state L until the next await or
\* its return.
Continue(text, L, results) ==
  ResumeAt(RunLoop(text, tools, toolParams, L), results)

\* The model completion resolves to text: processToolActions(text) starts.
ModelReturns(text) ==
  /\ pc = "model"
  /\ response' = text
  /\ Continue(text, [text |-> text, from |-> 1, log |-> << >>], << >>)
  /\ UNCHANGED <<agent, peer, other, regLog, tools, regOps, query, toolParams, fast, modelCalls>>

\* A rejected model completion answered with an empty outcome.
ModelFails_ReturnsEmpty ==
  /\ pc = "model"
  /\ pc' = "done"
  /\ outcome' = Returned("generic", "rewritten", Empty, << >>)
  /\ UNCHANGED <<agent, peer, other, regLog, tools, regOps, query, toolParams, fast, response,
                 processedResponse, lastIndex, toolResults, call, tagLog,
                 execLog, inflight, modelCalls>>

\* The model completion rejects: generateCompletion rethrows, and so does
\* processQuery.
ModelFails ==
  /\ pc = "model"
  /\ pc' = "failed"
  /\ outcome' = Threw(<<"Failed to generate response">>)
  /\ UNCHANGED <<agent, peer, other, regLog, tools, regOps, query, toolParams, fast, response,
                 processedResponse, lastIndex, toolResults, call, tagLog,
                 execLog, inflight, modelCalls>>

\* The awaited call settles with marker: the tag is rewritten and the loop
\* goes on.
Settle(kind, marker, results, result) ==
  Continue(response,
           Rewritten([text |-> processedResponse, from |-> lastIndex + 1,
                      log |-> tagLog],
                     call.m, call.d, kind, marker, call.registry, result),
           results)

\* The awaited tool.execute resolves to result.
ExecuteReturns(result) ==
  /\ pc = "exec"
  /\ Settle("success",
            SuccessMarker(ResultKey(call.m.toolName, call.m.actionName)),
            SetResult(toolResults,
                      ResultKey(call.m.toolName, call.m.actionName), result),
            result)
  /\ UNCHANGED <<agent, peer, other, regLog, tools, regOps, query, toolParams, fast, response,
                 modelCalls>>

\* A rejected tool.execute leaving processToolActions and processQuery.
ExecuteThrows_Propagates(message) ==
  /\ pc = "exec"
  /\ pc' = "failed"
  /\ outcome' = Threw(message)
  /\ UNCHANGED <<agent, peer, other, regLog, tools, regOps, query, toolParams, fast, response,
                 processedResponse, lastIndex, toolResults, call, tagLog,
                 execLog, inflight, modelCalls>>

\* The awaited tool.execute rejects with an Error of the given message.
ExecuteThrows(message) ==
  /\ pc = "exec"
  /\ Settle("failure",
            ErrorMarker(call.m.toolName, call.m.actionName, message),
            toolResults, "none")
  /\ UNCHANGED <<agent, peer, other, regLog, tools, regOps, query, toolParams, fast, response,
                 modelCalls>>

Next ==
  \/ \E r \in Registrations : RegisterTool(r[1], r[2])
  \/ \E k \in RegistryKeys : DeregisterTool(k)
  \/ \E q \in Queries, tp \in Contexts : ProcessQuery(q, tp)
  \/ \E w \in BOOLEAN : FastReturns(w)
  \/ \E msg \in Messages : FastFails(msg)
  \/ \E text \in ShortTexts : ModelReturns(text)
  \/ ModelFails
  \/ \E r \in ExecResults : ExecuteReturns(r)
  \/ \E msg \in Messages : ExecuteThrows(msg)

Spec == Init /\ [][Next]_vars

(***************************************************************************)
(* Every awaited external call settles: the promise of the model           *)
(* completion, of a fast-path call or of tool.execute resolves or rejects. *)
(***************************************************************************)
FastSettles ==
  \/ \E w \in BOOLEAN : FastReturns(w)
  \/ \E msg \in Messages : FastFails(msg)

ModelSettles ==
  \/ \E text \in ShortTexts : ModelReturns(text)
  \/ ModelFails

ExecuteSettles ==
  \/ \E r \in ExecResults : ExecuteReturns(r)
  \/ \E msg \in Messages : ExecuteThrows(msg)

SpecLive ==
  /\ Init
  /\ [][Next]_vars
  /\ WF_vars(FastSettles)
  /\ WF_vars(ModelSettles)
  /\ WF_vars(ExecuteSettles)

(***************************************************************************)
(* The generic protocol alone: a BaseAgent, which has no fast path, and    *)
(* every completion of Texts.                                              *)
(***************************************************************************)
InitGeneric ==
  InitWith({[kind |-> "base", hasClient |-> FALSE]}) /\ regLog = NoRegLog

NextGeneric ==
  \/ \E r \in Registrations : RegisterTool(r[1], r[2])
  \/ \E k \in RegistryKeys : DeregisterTool(k)
  \/ \E tp \in Contexts : ProcessQuery(QRundown, tp)
  \/ \E text \in Texts : ModelReturns(text)
  \/ ModelFails
  \/ \E r \in ExecResults : ExecuteReturns(r)
  \/ \E msg \in Messages : ExecuteThrows(msg)

SpecGeneric == InitGeneric /\ [][NextGeneric]_vars

(***************************************************************************)
(* The generic protocol on the completions of ParamTexts.                  *)
(***************************************************************************)
NextParams ==
  \/ \E r \in Registrations : RegisterTool(r[1], r[2])
  \/ \E k \in RegistryKeys : DeregisterTool(k)
  \/ \E tp \in Contexts : ProcessQuery(QRundown, tp)
  \/ \E text \in ParamTexts : ModelReturns(text)
  \/ ModelFails
  \/ \E r \in ExecResults : ExecuteReturns(r)
  \/ \E msg \in Messages : ExecuteThrows(msg)

SpecParams == InitGeneric /\ [][NextParams]_vars

(***************************************************************************)
(* The generic protocol on tags that omit the pull-request number.         *)
(***************************************************************************)
TagMerge == Tag(<<"github">>, <<"mergePullRequest">>, <<"{", "}">>)
TagDecline == Tag(<<"github">>, <<"declinePullRequest">>, <<"{", "}">>)

\* An action the catalog does not list, and a tool without a catalog.
TagUnknownAction == Tag(<<"github">>, <<"frobnicate">>, <<"{", "}">>)
TagNoCatalog == Tag(<<"util">>, <<"run">>, <<"{", "}">>)

CatalogTexts ==
  {TextOf(ts) : ts \in UNION {[1..n -> {TagMerge, TagDecline, TagNoParams,
                                         TagUnknownAction, TagNoCatalog}] :
                                n \in 0..MaxTags}}

NextCatalog ==
  \/ \E r \in Registrations : RegisterTool(r[1], r[2])
  \/ \E k \in RegistryKeys : DeregisterTool(k)
  \/ \E tp \in Contexts : ProcessQuery(QRundown, tp)
  \/ \E text \in CatalogTexts : ModelReturns(text)
  \/ ModelFails
  \/ \E r \in ExecResults : ExecuteReturns(r)
  \/ \E msg \in Messages : ExecuteThrows(msg)

SpecCatalog == InitGeneric /\ [][NextCatalog]_vars

(***************************************************************************)
(* The registry as the subject: a BaseAgent with the history of its        *)
(* registry calls, which may replace the tool under a name.                *)
(***************************************************************************)
InitRegistry ==
  InitWith({[kind |-> "base", hasClient |-> FALSE]}) /\ regLog = EmptyRegLog

RegistryCalls == Registrations \cup {<<"github", "ut">>}

NextRegistry ==
  \/ \E r \in RegistryCalls : RegisterTool(r[1], r[2])
  \/ \E k \in RegistryKeys : DeregisterTool(k)
  \/ \E tp \in Contexts : ProcessQuery(QRundown, tp)
  \/ \E text \in ShortTexts : ModelReturns(text)
  \/ ModelFails
  \/ \E r \in ExecResults : ExecuteReturns(r)
  \/ \E msg \in Messages : ExecuteThrows(msg)

SpecRegistry == InitRegistry /\ [][NextRegistry]_vars

(***************************************************************************)
(* Two agents holding one GitHubTool instance: registry calls on either,   *)
(* queries on this one.                                                    *)
(***************************************************************************)
NextAgents ==
  \/ RegisterTool("github", "gh")
  \/ DeregisterTool("github")
  \/ OtherRegisterTool("github", "gh")
  \/ OtherDeregisterTool("github")
  \/ \E tp \in Contexts : ProcessQuery(QRundown, tp)
  \/ \E text \in ShortTexts : ModelReturns(text)
  \/ ModelFails
  \/ \E r \in ExecResults : ExecuteReturns(r)
  \/ \E msg \in Messages : ExecuteThrows(msg)

SpecAgents == InitRegistry /\ [][NextAgents]_vars

(***************************************************************************)
(* Two processQuery calls interleaved on one BaseAgent.  The second call   *)
(* runs the same code; its locals are the fields of peer.  Both read       *)
(* this.tools whenever they resume.                                        *)
(***************************************************************************)
\* The completions of the interleaved calls.
PairTexts == {TextOf(<<TagOk>>), TextOf(<<TagOk, TagOk>>),
              TextOf(<<TagUnknownTool, TagOk>>)}

\* The position the resumed loop scans from, read from a regex object that
\* both calls use.
ScanFrom_SharedRegex(own, others) == others

\* The position the resumed loop scans from: toolActionRegex is created by
\* the call, so it is the call's own lastIndex.
ScanFrom(own, others) == own

\* The second call's locals after its loop ran to r.
PeerResumed(p, r, results) ==
  [p EXCEPT !.processedResponse = r.L.text,
            !.lastIndex = r.L.from - 1,
            !.tagLog = r.L.log,
            !.toolResults = results,
            !.pc = IF r.await THEN "exec" ELSE "done",
            !.call = IF r.await
                     THEN [active |-> TRUE, tag |-> Len(r.L.log) + 1,
                           m |-> r.m, d |-> r.d, registry |-> tools]
                     ELSE NoCall,
            !.outcome = IF r.await THEN p.outcome
                        ELSE Returned("generic", "rewritten", r.L.text,
                                      results)]

\* The second call's loop state after its awaited call settled with marker.
PeerRewritten(kind, marker, result) ==
  [Rewritten([text |-> peer.processedResponse, from |-> peer.lastIndex + 1,
              log |-> peer.tagLog],
             peer.call.m, peer.call.d, kind, marker, peer.call.registry,
             result)
     EXCEPT !.from = ScanFrom(peer.lastIndex, lastIndex) + 1]

PeerSettle(kind, marker, results, result) ==
  /\ peer' = PeerResumed(peer,
                RunLoop(peer.response, tools, peer.toolParams,
                        PeerRewritten(kind, marker, result)),
                results)
  /\ UNCHANGED <<agent, tools, regOps, other, regLog, queryVars>>

PeerProcessQuery(tp) ==
  /\ peer.pc = "idle"
  /\ peer' = [peer EXCEPT !.pc = "model", !.toolParams = tp]
  /\ UNCHANGED <<agent, tools, regOps, other, regLog, queryVars>>

PeerModelReturns(text) ==
  /\ peer.pc = "model"
  /\ peer' = PeerResumed([peer EXCEPT !.response = text],
                RunLoop(text, tools, peer.toolParams,
                        [text |-> text, from |-> 1, log |-> << >>]),
                << >>)
  /\ UNCHANGED <<agent, tools, regOps, other, regLog, queryVars>>

PeerModelFails ==
  /\ peer.pc = "model"
  /\ peer' = [peer EXCEPT !.pc = "failed",
                          !.outcome = Threw(<<"Failed to generate response">>)]
  /\ UNCHANGED <<agent, tools, regOps, other, regLog, queryVars>>

PeerExecuteReturns(result) ==
  /\ peer.pc = "exec"
  /\ PeerSettle("success",
        SuccessMarker(ResultKey(peer.call.m.toolName, peer.call.m.actionName)),
        SetResult(peer.toolResults,
                  ResultKey(peer.call.m.toolName, peer.call.m.actionName),
                  result),
        result)

PeerExecuteThrows(message) ==
  /\ peer.pc = "exec"
  /\ PeerSettle("failure",
        ErrorMarker(peer.call.m.toolName, peer.call.m.actionName, message),
        peer.toolResults, "none")

\* registerTool / deregisterTool run between any two segments of the calls.
PeerSuspended == peer.pc \in {"idle", "model", "exec"}

NextPair ==
  \/ RegisterTool("github", "gh")
  \/ DeregisterTool("github")
  \/ \E tp \in Contexts : ProcessQuery(QRundown, tp)
  \/ \E text \in PairTexts : ModelReturns(text)
  \/ ModelFails
  \/ \E r \in ExecResults : ExecuteReturns(r)
  \/ \E msg \in Messages : ExecuteThrows(msg)
  \/ \E tp \in Contexts : PeerProcessQuery(tp)
  \/ \E text \in PairTexts : PeerModelReturns(text)
  \/ PeerModelFails
  \/ \E r \in ExecResults : PeerExecuteReturns(r)
  \/ \E msg \in Messages : PeerExecuteThrows(msg)

SpecPair == InitGeneric /\ [][NextPair]_vars

(***************************************************************************)
(* Vocabulary of the properties.                                           *)
(***************************************************************************)
\* processQuery returned through the generic protocol.
GenericDone == pc = "done" /\ outcome.path = "generic"

\* The tags of the completion, in textual order.
Extracted == AllMatches(response, 1)

\* tool.execute was called for the k-th tag.
Executed(k) == \E i \in 1..Len(execLog) : execLog[i].tag = k

\* The atoms only a marker brings into a text, one per marker.
MarkerAtoms == {" Invalid parameter format for ", " completed successfully",
                " result"}

MarkerCount(text) == Cardinality({i \in 1..Len(text) : text[i] \in MarkerAtoms})

\* The tool a token names: the first registered tool whose configured
\* identifier equals the token, case ignored.
NamedTool(registry, toolName) ==
  LET hits == {i \in 1..Len(registry) :
                 <<LowerAtom(ToolObj(registry[i].tool).configName)>>
                   = toLowerCase(toolName)}
  IN  IF hits = {} THEN "undefined"
      ELSE registry[CHOOSE i \in hits : \A j \in hits : i <= j].tool

\* The schema-required parameters of tool.actionName that obj leaves out.
RequiredAbsentFrom(tool, actionName, obj) ==
  IF tool = "undefined" THEN {}
  ELSE LET ps == GetActionInfo(tool, actionName).parameters
       IN  {ps[i].name : i \in {j \in 1..Len(ps) :
              /\ ps[j].required
              /\ \/ ps[j].name \notin DOMAIN obj
                 \/ obj[ps[j].name] = "null"}}

\* The k-th processed tag was rejected for missing required parameters.
RejectedAsMissing(e) == e.kind = "error" /\ Len(e.missing) > 0

(***************************************************************************)
(* C1: the text processToolActions returns holds exactly one marker per    *)
(* tag extracted from the completion, and no substring of it matches the   *)
(* tag grammar any more.                                                   *)
(***************************************************************************)
C1_TotalRewriting ==
  GenericDone =>
    /\ MarkerCount(outcome.response) = Len(Extracted)
    /\ ~RegexExec(outcome.response, 1).found

(***************************************************************************)
(* C2: a tag whose parameter text is not valid JSON is never executed, is  *)
(* replaced by the invalid-parameter marker, and does not stop the scan:   *)
(* every tag of the text is processed and the malformed tag is gone.       *)
(***************************************************************************)
C2_TagGone(k) ==
  /\ ~Executed(k)
  /\ Len(tagLog) = Len(Extracted)
  /\ tagLog[k].kind = "invalid"
  /\ Contains(outcome.response,
              InvalidMarker(Extracted[k].toolName, Extracted[k].actionName))
  /\ ~Contains(outcome.response, Extracted[k].fullMatch)

C2_MalformedTagSkipped ==
  GenericDone =>
    \A k \in 1..Len(Extracted) :
      ~JSONparse(Extracted[k].paramsStr).ok => C2_TagGone(k)

(***************************************************************************)
(* C3: a tag whose tool token matches no registered tool is replaced by    *)
(* the "Tool not found" marker; nothing is executed for it, the query      *)
(* returns, and the remaining tags are processed.                          *)
(***************************************************************************)
C3_TagGone(k) ==
  /\ ~Executed(k)
  /\ Len(tagLog) = Len(Extracted)
  /\ tagLog[k].kind = "notfound"
  /\ Contains(outcome.response, <<" result", ":", " Tool not found", "]">>)
  /\ ~Contains(outcome.response, tagLog[k].fullMatch)

C3_UnknownToolMarked ==
  GenericDone =>
    \A k \in 1..Len(tagLog) :
      (/\ JSONparse(tagLog[k].paramsStr).ok
       /\ ~HasMatchingTool(tagLog[k].registry, tagLog[k].toolName))
        => C3_TagGone(k)

(***************************************************************************)
(* C4: when a schema-required parameter of the action a tag names is       *)
(* missing from the tag, execute is not called for the tag and the error   *)
(* marker written for it names every missing required parameter.           *)
(***************************************************************************)
C4_Rejected(k, absent) ==
  absent # {} =>
    /\ ~Executed(k)
    /\ \A p \in absent : Contains(tagLog[k].marker, <<p>>)

C4_MissingParametersNamed ==
  \A k \in 1..Len(tagLog) :
    JSONparse(tagLog[k].paramsStr).ok =>
      C4_Rejected(k, RequiredAbsentFrom(
                       NamedTool(tagLog[k].registry, tagLog[k].toolName),
                       tagLog[k].actionName,
                       JSONparse(tagLog[k].paramsStr).obj))

(***************************************************************************)
(* C5: within one processToolActions call the execute calls start in the   *)
(* textual order of their tags and never overlap: while the call of a tag  *)
(* is awaited no other call is in flight, and every earlier tag has its    *)
(* marker substituted.                                                     *)
(***************************************************************************)
C5_SequentialInTextOrder ==
  /\ Cardinality(inflight) <= 1
  /\ \A i, j \in 1..Len(execLog) : i < j => execLog[i].tag < execLog[j].tag
  /\ \A k \in 1..Len(tagLog) : tagLog[k].index = Extracted[k].index
  /\ pc = "exec" =>
       /\ inflight = {call.tag}
       /\ Len(tagLog) = call.tag - 1
       /\ call.m.index = Extracted[call.tag].index
       /\ execLog[Len(execLog)].tag = call.tag

\* The second execute call of a completion is awaited.
C5_Witness ==
  /\ pc = "exec"
  /\ Len(execLog) = 2
  /\ tagLog[1].kind \in {"success", "failure"}

(***************************************************************************)
(* C6: when execute of a resolved tool fails, the tag is replaced by an    *)
(* error marker that carries the failure's message, and the failure does   *)
(* not leave the tag loop: the query returns with every tag processed.     *)
(***************************************************************************)
C6_FailureMarked ==
  GenericDone =>
    \A k \in 1..Len(tagLog) :
      tagLog[k].kind = "failure" =>
        /\ Len(tagLog) = Len(Extracted)
        /\ Contains(outcome.response, tagLog[k].marker)

(***************************************************************************)
(* C7: on a GitHubAgent a query that matches a fast-path pattern never     *)
(* invokes the model, whatever the tool does; a query that matches none    *)
(* invokes the generic protocol exactly once.                              *)
(***************************************************************************)
C7_FastPathShortCircuits ==
  /\ (agent.kind = "github" /\ query = QSummarize) =>
       /\ modelCalls = 0
       /\ pc \in {"fast", "done"}
       /\ pc = "done" => outcome.path = "fast"
  /\ (agent.kind = "github" /\ query = QRundown) =>
       /\ modelCalls = 1
       /\ pc \in {"model", "exec", "done", "failed"}
       /\ pc = "done" => outcome.path = "generic"

\* The summary query answered after the tool's call failed.
C7_Witness ==
  /\ agent.kind = "github"
  /\ query = QSummarize
  /\ pc = "done"
  /\ fast.info = "failed"

C9_Resolved(e) ==
  /\ e.tool = NamedTool(e.registry, e.toolName)
  /\ \/ e.kind \in {"success", "failure"}
     \/ RejectedAsMissing(e)

C9_ResolvedByConfiguredName ==
  \A k \in 1..Len(tagLog) :
    (/\ JSONparse(tagLog[k].paramsStr).kind = "object"
     /\ HasMatchingTool(tagLog[k].registry, tagLog[k].toolName))
      => C9_Resolved(tagLog[k])

(***************************************************************************)
(* C10: a tag is rejected for missing required parameters exactly when a   *)
(* schema-required field is absent from the parameters after enhancement,  *)
(* so a field only the caller's context supplies lets the tag through.     *)
(***************************************************************************)
C10_DecidedAfterEnhancement ==
  \A k \in 1..Len(tagLog) :
    (tagLog[k].tool # "undefined"
       /\ JSONparse(tagLog[k].paramsStr).kind = "object")
      => (RejectedAsMissing(tagLog[k])
            <=> RequiredAbsentFrom(tagLog[k].tool, tagLog[k].actionName,
                  EnhanceToolParameters(tagLog[k].tool, tagLog[k].actionName,
                    JSONparse(tagLog[k].paramsStr), toolParams)) # {})

(***************************************************************************)
(* C10, as the code has it: a tag that reaches validation is rejected for  *)
(* missing required parameters exactly when a schema-required field is     *)
(* absent from the tag's own parsed parameters, before enhancement; a      *)
(* rejected tag is not executed, and no call is made for a tag whose own   *)
(* parameters leave a required field out, whatever the context supplies.   *)
(***************************************************************************)
C10_DecidedBeforeEnhancement ==
  /\ \A k \in 1..Len(tagLog) :
       (tagLog[k].tool # "undefined"
          /\ JSONparse(tagLog[k].paramsStr).kind = "object")
         => /\ RejectedAsMissing(tagLog[k])
                 <=> RequiredAbsentFrom(tagLog[k].tool, tagLog[k].actionName,
                       JSONparse(tagLog[k].paramsStr).obj) # {}
            /\ RejectedAsMissing(tagLog[k]) => ~Executed(k)
  /\ pc = "exec" =>
       RequiredAbsentFrom(call.d.tool, call.m.actionName,
                          JSONparse(call.m.paramsStr).obj) = {}

\* A tag rejected for a field that the caller's context supplies.
C10_Witness ==
  /\ "number" \in DOMAIN toolParams
  /\ \E k \in 1..Len(tagLog) : tagLog[k].missing = <<"number">>

(***************************************************************************)
(* C11: the parameters execute receives are the three layers merged in     *)
(* priority order: every key of the tag keeps its tag value whatever the   *)
(* value is, a GitHubTool's owner/repo default fills a key only if the tag *)
(* lacks it, and a caller-context value fills a key only if neither        *)
(* higher layer set it.                                                    *)
(***************************************************************************)
\* The contextual defaults of a tool: owner and repo of a GitHubTool.
ToolDefaults(tool) ==
  IF ToolObj(tool).className # "GitHubTool" THEN EmptyObject
  ELSE [k \in {"owner", "repo"} |->
          IF k = "owner" THEN ToolObj(tool).repoOwner
          ELSE ToolObj(tool).repoName]

\* Three layers merged, each filling only the keys the higher ones lack.
Layered(tagObj, defaults, context) ==
  [k \in (DOMAIN tagObj) \cup (DOMAIN defaults) \cup (DOMAIN context) |->
     IF k \in DOMAIN tagObj THEN tagObj[k]
     ELSE IF k \in DOMAIN defaults THEN defaults[k]
     ELSE context[k]]

C11_LayeredMerge ==
  \A i \in 1..Len(execLog) :
    execLog[i].tag >= 1 =>
      execLog[i].params =
        Layered(JSONparse(Extracted[execLog[i].tag].paramsStr).obj,
                ToolDefaults(execLog[i].tool), toolParams)

(***************************************************************************)
(* C12: the result map holds one entry per distinct toolName_actionName    *)
(* pair whose execution returned a result, its keys are in the order of    *)
(* the pairs' first such execution, and the entry of a pair executed       *)
(* again holds the result of the latest execution.                         *)
(***************************************************************************)
\* The tags whose execute call resolved, in textual order.
Successes == SelectSeq(tagLog, LAMBDA e : e.kind = "success")

KeyOf(e) == ResultKey(e.toolName, e.actionName)

\* The first and the last execution stored under key.
FirstOf(key) ==
  CHOOSE i \in 1..Len(Successes) :
    /\ KeyOf(Successes[i]) = key
    /\ \A j \in 1..Len(Successes) : KeyOf(Successes[j]) = key => i <= j

LastOf(key) ==
  CHOOSE i \in 1..Len(Successes) :
    /\ KeyOf(Successes[i]) = key
    /\ \A j \in 1..Len(Successes) : KeyOf(Successes[j]) = key => j <= i

C12_ResultMap ==
  /\ {toolResults[j].key : j \in 1..Len(toolResults)}
       = {KeyOf(Successes[i]) : i \in 1..Len(Successes)}
  /\ \A a, b \in 1..Len(toolResults) :
       a < b => FirstOf(toolResults[a].key) < FirstOf(toolResults[b].key)
  /\ \A j \in 1..Len(toolResults) :
       toolResults[j].result = Successes[LastOf(toolResults[j].key)].result

\* The same pair executed twice with different results.
C12_Witness ==
  /\ Len(Successes) = 2
  /\ KeyOf(Successes[1]) = KeyOf(Successes[2])
  /\ Successes[1].result # Successes[2].result

(***************************************************************************)
(* C13: when the model-completion call fails, processQuery fails as a      *)
(* whole: the error reaches the caller, no tool action was executed and    *)
(* no outcome is returned.  Conversely processQuery raises an error only   *)
(* then: a failed fast-path call or a failed tag ends in a returned        *)
(* outcome.                                                                *)
(***************************************************************************)
\* The model was called and the call settled without a completion.
ModelCallFailed == modelCalls = 1 /\ pc # "model" /\ response = Empty

C13_OnlyModelFailureRaises ==
  /\ ModelCallFailed =>
       /\ pc = "failed"
       /\ outcome.result = "threw"
       /\ tagLog = << >>
       /\ toolResults = << >>
       /\ \A i \in 1..Len(execLog) : execLog[i].tag = 0
  /\ (pc = "failed" \/ outcome.result = "threw") => ModelCallFailed

\* processQuery has thrown.
C13_Witness == pc = "failed" /\ outcome.result = "threw"

(***************************************************************************)
(* C14: provided every external call settles, every processQuery call      *)
(* eventually reaches Done.                                                *)
(***************************************************************************)
C14_AlwaysDone == (pc # "idle") ~> (pc = "done")

(***************************************************************************)
(* C14, as the code has it: provided every external call settles, every    *)
(* processQuery call eventually terminates; it reaches Done through the    *)
(* fast path or through the tag loop, whatever failed for a tag, unless    *)
(* the model-completion call failed, in which case it ends by throwing.    *)
(***************************************************************************)
C14_AlwaysTerminates ==
  (pc # "idle") ~> (pc = "done" \/ (pc = "failed" /\ ModelCallFailed))

\* A query that is Done although the execution of a tag failed.
C14_Witness ==
  /\ pc = "done"
  /\ \E k \in 1..Len(tagLog) : tagLog[k].kind = "failure"

(***************************************************************************)
(* C15: a (tool, action, params) triple written as                         *)
(* [TOOL_ACTION:tool:action:JSON of params] and extracted again yields     *)
(* exactly one invocation, with the same tool token, action name and       *)
(* parameter object.                                                       *)
(***************************************************************************)
C15_SameTriple(tr, found) ==
  /\ Len(found) = 1
  /\ found[1].toolName = tr.tool
  /\ found[1].actionName = tr.action
  /\ JSONparse(found[1].paramsStr).ok
  /\ JSONparse(found[1].paramsStr).obj = tr.params

C15_RoundTrip ==
  \A tr \in Triples :
    response = TextOf(<<Serialize(tr)>>) => C15_SameTriple(tr, Extracted)

(***************************************************************************)
(* C16: a tag is executed only if its parameter text parses as a JSON      *)
(* object: for parameter text that is valid JSON but not an object (a      *)
(* number, string, boolean or null) no execute is called, and the tag is   *)
(* rewritten with the invalid-parameter marker.                            *)
(***************************************************************************)
C16_Malformed(k) ==
  /\ ~Executed(k)
  /\ k <= Len(tagLog) => tagLog[k].kind = "invalid"

C16_OnlyObjectsExecuted ==
  \A k \in 1..Len(Extracted) :
    (/\ JSONparse(Extracted[k].paramsStr).ok
     /\ JSONparse(Extracted[k].paramsStr).kind # "object")
      => C16_Malformed(k)

(***************************************************************************)
(* C17: a trailing "tool" suffix of the tool token is stripped whatever    *)
(* its letter case, and only once: the tokens X, Xtool, XTool and XTOOL    *)
(* are looked up, and keyed in the result map, as X.                       *)
(***************************************************************************)
\* The tool token as it stands in the tag.
RawToken(fullMatch) == Slice(fullMatch, 4, FirstAt(fullMatch, ":", 4) - 1)

HasSuffix(raw) == Len(raw) >= 2 /\ LowerAtom(raw[Len(raw)]) = "tool"

C17_Stripped(e, raw) ==
  IF HasSuffix(raw)
  THEN /\ e.toolName = Slice(raw, 1, Len(raw) - 1)
       /\ e.kind = "success" =>
            \E j \in 1..Len(toolResults) :
              toolResults[j].key
                = ResultKey(Slice(raw, 1, Len(raw) - 1), e.actionName)
  ELSE e.toolName = raw

C17_SuffixStripped ==
  \A k \in 1..Len(tagLog) :
    C17_Stripped(tagLog[k], RawToken(tagLog[k].fullMatch))

(***************************************************************************)
(* C18: checkRequiredParameters reports exactly the required parameters    *)
(* whose value in the parameter object is absent or null; a required key   *)
(* given as an empty string, zero or false is present: it is not reported, *)
(* and the tag is executed if nothing else is missing.                     *)
(***************************************************************************)
C18_ExactlyAbsent(e, absent) ==
  /\ {e.missing[i] : i \in 1..Len(e.missing)} = absent
  /\ absent = {} => e.kind \in {"success", "failure"}

C18_PresenceTest ==
  /\ \A k \in 1..Len(tagLog) :
       (tagLog[k].tool # "undefined" /\ JSONparse(tagLog[k].paramsStr).ok
          /\ JSONparse(tagLog[k].paramsStr).kind # "null")
         => C18_ExactlyAbsent(tagLog[k],
              RequiredAbsentFrom(tagLog[k].tool, tagLog[k].actionName,
                                 JSONparse(tagLog[k].paramsStr).obj))
  /\ pc = "exec" =>
       RequiredAbsentFrom(call.d.tool, call.m.actionName,
                          JSONparse(call.m.paramsStr).obj) = {}

\* createComment executed with number = false and body = "", and rejected
\* for body = null alone although number = 0.
C18_Witness ==
  /\ \E i \in 1..Len(execLog) :
       /\ execLog[i].action = <<"createComment">>
       /\ execLog[i].params["number"] = "false"
       /\ execLog[i].params["body"] = "\"\""
  /\ \E k \in 1..Len(tagLog) : tagLog[k].missing = <<"body">>

(***************************************************************************)
(* C19: within the catalog of every tool, GitHubTool's and SlackTool's,    *)
(* the action names are pairwise distinct, so that getActionInfo's lookup  *)
(* by name has one candidate.                                              *)
(***************************************************************************)
C19_DistinctNames(acts) ==
  \A i, j \in 1..Len(acts) : acts[i].name = acts[j].name => i = j

C19_CatalogNamesDistinct ==
  /\ C19_DistinctNames(SlackActions)
  /\ \A i \in 1..Len(tools) : C19_DistinctNames(ToolObj(tools[i].tool).actions)

(***************************************************************************)
(* C20: however registerTool and deregisterTool interleave with a          *)
(* suspended query, the lookup of every tag whose parameters parse has one *)
(* of two outcomes: the tool is not seen and the tag gets "Tool not        *)
(* found", or the tool is seen whole, the instance the registry holds for  *)
(* it is obtained, validated and (unless rejected) executed.  No lookup    *)
(* reports the tool present and obtains no instance.                       *)
(***************************************************************************)
C20_SeenOrNot(e) ==
  JSONparse(e.paramsStr).ok =>
    \/ e.kind = "notfound" /\ e.tool = "undefined"
    \/ /\ e.kind # "notfound"
       /\ e.tool \in ToolIds
       /\ e.tool = MapGet(e.registry, AsName(e.toolName))

C20_LookupAtomic ==
  /\ \A k \in 1..Len(tagLog) : C20_SeenOrNot(tagLog[k])
  /\ pc = "exec" => call.d.tool \in ToolIds

(***************************************************************************)
(* C21: two processQuery calls interleaved on one agent share nothing but  *)
(* the registry.  What a call returns (response and toolResults) is what   *)
(* it returns when run alone on the same completion, with the registry     *)
(* contents it saw at each tag and the same tool answers; and while it     *)
(* runs, the tags it has handled are the first tags of its completion.     *)
(***************************************************************************)
\* The marker of the k-th tag in the run alone: the tool's answer as logged
\* where the tag is executed.
SoloMarker(m, d, e) ==
  IF d.kind # "execute" THEN MarkerOf(m, d)
  ELSE IF e.kind = "success"
  THEN SuccessMarker(ResultKey(m.toolName, m.actionName))
  ELSE e.marker

SoloResults(results, m, d, e) ==
  IF d.kind = "execute" /\ e.kind = "success"
  THEN SetResult(results, ResultKey(m.toolName, m.actionName), e.result)
  ELSE results

RECURSIVE SoloRun(_, _, _, _, _)
SoloStep(ms, tp, log, k, acc, d) ==
  SoloRun(ms, tp, log, k + 1,
          [text |-> Replace(acc.text, ms[k].fullMatch,
                            SoloMarker(ms[k], d, log[k])),
           results |-> SoloResults(acc.results, ms[k], d, log[k])])

\* The call run alone over the tags ms of its completion, from the k-th on.
SoloRun(ms, tp, log, k, acc) ==
  IF k > Len(ms) \/ k > Len(log) THEN acc
  ELSE SoloStep(ms, tp, log, k, acc, Decide(log[k].registry, tp, ms[k]))

C21_InOrder(ms, log) ==
  /\ Len(log) <= Len(ms)
  /\ \A k \in 1..Len(log) : log[k].index = ms[k].index

C21_AsAlone(ms, text, tp, log, out) ==
  /\ Len(log) = Len(ms)
  /\ out.response = SoloRun(ms, tp, log, 1,
                            [text |-> text, results |-> << >>]).text
  /\ out.toolResults = SoloRun(ms, tp, log, 1,
                               [text |-> text, results |-> << >>]).results

C21_QueriesIndependent ==
  /\ pc \in {"exec", "done"} => C21_InOrder(AllMatches(response, 1), tagLog)
  /\ peer.pc \in {"exec", "done"} =>
       C21_InOrder(AllMatches(peer.response, 1), peer.tagLog)
  /\ pc = "done" =>
       C21_AsAlone(AllMatches(response, 1), response, toolParams, tagLog,
                   outcome)
  /\ peer.pc = "done" =>
       C21_AsAlone(AllMatches(peer.response, 1), peer.response,
                   peer.toolParams, peer.tagLog, peer.outcome)

\* A call has returned its rewritten completion and results while the other
\* call, one tag handled, is suspended in tool.execute.
C21_Witness ==
  /\ pc = "done" /\ Len(tagLog) = 2 /\ toolResults # << >>
  /\ peer.pc = "exec" /\ Len(peer.tagLog) = 1

(***************************************************************************)
(* C22: the pattern matcher is first-match-wins over the agent's ordered   *)
(* intent list, ignores case and runs before any model call.  Of the       *)
(* patterns a query matches only the earliest one's action is invoked, at  *)
(* most once, and never a later one's.                                     *)
(***************************************************************************)
\* The ordered intent list of an agent class.
IntentList(kind) ==
  CASE kind = "github" ->
         << [intent |-> "summarizePR", pattern |-> prSummaryPattern],
            [intent |-> "reviewCode", pattern |-> codeReviewPattern] >>
    [] kind = "slack" ->
         << [intent |-> "sendMessage", pattern |-> sendMessagePattern],
            [intent |-> "channelInfo", pattern |-> getChannelInfoPattern],
            [intent |-> "createChannel", pattern |-> createChannelPattern] >>
    [] OTHER -> << >>

\* The positions of the list whose pattern the query matches, case ignored.
Matching(list, q) ==
  {i \in 1..Len(list) : RegexMatch(toLowerCase(q), list[i].pattern).ok}

\* The direct calls made so far.
DirectCalls == SelectSeq(execLog, LAMBDA c : c.tag = 0)

C22_Earliest(list, hits) ==
  IF hits = {}
  THEN fast.intent = "none" /\ DirectCalls = << >>
  ELSE /\ \E i \in hits : (\A j \in hits : i <= j) /\ fast.intent = list[i].intent
       /\ Len(DirectCalls) <= 1
       /\ \A c \in 1..Len(DirectCalls) : DirectCalls[c].action = <<fast.intent>>
       /\ pc = "fast" => modelCalls = 0
       /\ (pc = "fast" /\ agent.kind = "github") => Len(DirectCalls) = 1

C22_FirstMatchWins ==
  pc # "idle" => C22_Earliest(IntentList(agent.kind),
                              Matching(IntentList(agent.kind), query))

\* A query matching the review pattern first in its text and the summary
\* pattern later was answered by summarizePR alone.
C22_Witness ==
  /\ query = QReviewThenSummarize
  /\ Cardinality(Matching(IntentList(agent.kind), query)) = 2
  /\ pc = "done" /\ outcome.kind = "report"
  /\ Len(execLog) = 1 /\ execLog[1].action = <<"summarizePR">>
  /\ modelCalls = 0

(***************************************************************************)
(* C23: a tag is rewritten to the success marker "[<key> completed         *)
(* successfully]" only if the result tool.execute resolved to has its      *)
(* success flag set; a result with success = false never yields a success  *)
(* marker.                                                                 *)
(***************************************************************************)
C23_SuccessMarkerMeansSuccess ==
  \A k \in 1..Len(tagLog) :
    tagLog[k].marker
        = SuccessMarker(ResultKey(tagLog[k].toolName, tagLog[k].actionName))
      => tagLog[k].kind = "success" /\ tagLog[k].result.success

(***************************************************************************)
(* C24: the rewritten text is the completion with each tag's span replaced *)
(* by that tag's marker: the i-th marker stands where the i-th tag stood,  *)
(* the markers keep the order of their tags, and the text outside the      *)
(* spans is carried over unchanged, whatever the markers contain.          *)
(***************************************************************************)
RECURSIVE Spliced(_, _, _)
\* text with the spans of the first k tags of log replaced by their markers.
Spliced(text, log, k) ==
  IF k = 0 THEN text
  ELSE Spliced(Slice(text, 1, log[k].index - 1) \o log[k].marker
                 \o Slice(text, log[k].index + Len(log[k].fullMatch), Len(text)),
               log, k - 1)

C24_ExactSpans ==
  GenericDone => outcome.response = Spliced(response, tagLog, Len(tagLog))

(***************************************************************************)
(* C25: registerTool(n, t) makes n map to t, replacing any tool under n,   *)
(* and leaves every other entry unchanged.  deregisterTool(n) returns true *)
(* and removes exactly the entry n when n is registered, and returns false *)
(* and changes nothing when it is not.  After any sequence of calls the    *)
(* registry holds, for each name, the last tool registered under it and    *)
(* not deregistered since.                                                 *)
(***************************************************************************)
\* The registry as a set of (name, tool) pairs.
Pairs(m) == {<<m[i].key, m[i].tool>> : i \in 1..Len(m)}

C25_Registered(e) ==
  Pairs(e.after) = {pr \in Pairs(e.before) : pr[1] # e.name}
                     \cup {<<e.name, e.tool>>}

C25_Deregistered(e) ==
  IF \E pr \in Pairs(e.before) : pr[1] = e.name
  THEN /\ e.returned = "true"
       /\ Pairs(e.after) = {pr \in Pairs(e.before) : pr[1] # e.name}
  ELSE e.returned = "false" /\ e.after = e.before

RECURSIVE LastRegistered(_, _, _)
\* The tool last registered under name in the first k calls and not
\* deregistered since, "undefined" if there is none.
LastRegistered(ops, name, k) ==
  IF k = 0 THEN "undefined"
  ELSE IF ops[k].agent = "this" /\ ops[k].name = name
  THEN ops[k].tool
  ELSE LastRegistered(ops, name, k - 1)

C25_RegistryOperations ==
  /\ \A i \in 1..Len(regLog.ops) :
       regLog.ops[i].agent = "this" =>
         IF regLog.ops[i].op = "register" THEN C25_Registered(regLog.ops[i])
         ELSE C25_Deregistered(regLog.ops[i])
  /\ \A n \in RegistryKeys :
       MapGet(tools, n) = LastRegistered(regLog.ops, n, Len(regLog.ops))
  /\ Cardinality(Pairs(tools)) = Len(tools)

\* The tool under a name was replaced while another entry stayed.
C25_Witness ==
  /\ Len(regLog.ops) = 3
  /\ regLog.ops[3].op = "register" /\ regLog.ops[3].name = "github"
  /\ regLog.ops[3].tool = "ut"
  /\ Pairs(regLog.ops[3].before) = {<<"github", "gh">>, <<"util", "ut">>}
  /\ Pairs(tools) = {<<"github", "ut">>, <<"util", "ut">>}

(***************************************************************************)
(* C27: each agent owns its registry.  A registerTool or deregisterTool    *)
(* call on another agent leaves this agent's registry as it was, also when *)
(* both hold the same tool instance; this agent's registry is the result   *)
(* of its own calls alone, and a tool deregistered from the other agent is *)
(* still resolved and executed for the tags processed here.                *)
(***************************************************************************)
C27_OwnRegistry ==
  /\ \A i \in 1..Len(regLog.ops) :
       regLog.ops[i].agent = "other" => regLog.ops[i].after = regLog.ops[i].before
  /\ MapGet(tools, "github")
       = LastRegistered(regLog.ops, "github", Len(regLog.ops))
  /\ \A k \in 1..Len(tagLog) :
       (tagLog[k].toolName = <<"github">> /\ MapHas(tagLog[k].registry, "github"))
         => tagLog[k].kind \in {"success", "failure"} /\ tagLog[k].tool = "gh"

\* The other agent registered and deregistered the instance this agent
\* holds; here the tag was resolved and executed.
C27_Witness ==
  /\ \E i \in 1..Len(regLog.ops) :
       /\ regLog.ops[i].agent = "other" /\ regLog.ops[i].op = "deregister"
       /\ regLog.ops[i].returned = "true"
       /\ MapHas(regLog.ops[i].before, "github")
  /\ ~MapHas(other.tools, "github")
  /\ MapGet(tools, "github") = "gh"
  /\ pc = "done" /\ Len(tagLog) = 1 /\ tagLog[1].kind = "success"

(***************************************************************************)
(* C26: every catalog action declares its parameters as a mapping from     *)
(* parameter name to a descriptor with a required flag, so that a tag      *)
(* omitting a parameter the operation needs (the pull-request number of    *)
(* getPR, mergePullRequest, declinePullRequest, ...) is rejected by        *)
(* validation and tool.execute is not called for it.                       *)
(***************************************************************************)
\* The GitHubTool operations that throw "Pull request number is required"
\* without params.number, and getPR and createComment, which pass it on to
\* the API.
NeedsNumber ==
  {<<"summarizePR">>, <<"getChangedFiles">>, <<"reviewCode">>,
   <<"mergePullRequest">>, <<"declinePullRequest">>, <<"getPR">>,
   <<"createComment">>}

C26_NeededParametersValidated ==
  \A i \in 1..Len(execLog) :
    (execLog[i].tool = "gh" /\ execLog[i].action \in NeedsNumber)
      => /\ "number" \in DOMAIN execLog[i].params
         /\ execLog[i].params["number"] # "null"

(***************************************************************************)
(* C28: each tag of the model's original text leads to at most one         *)
(* tool.execute call, so a query makes no more execute calls than the      *)
(* original text has tags.  Tags are scanned in the original text only:    *)
(* tag-like text that a marker brings into the buffer is neither extracted *)
(* nor executed.                                                           *)
(***************************************************************************)
\* The tool.execute calls made for tags.
TagCalls == SelectSeq(execLog, LAMBDA c : c.tag >= 1)

C28_OfOriginal(ms, calls) ==
  /\ Len(calls) <= Len(ms)
  /\ \A i, j \in 1..Len(calls) : calls[i].tag = calls[j].tag => i = j
  /\ \A i \in 1..Len(calls) :
       /\ calls[i].tag \in 1..Len(ms)
       /\ calls[i].action = ms[calls[i].tag].actionName
  /\ Len(tagLog) <= Len(ms)
  /\ \A k \in 1..Len(tagLog) : tagLog[k].index = ms[k].index

C28_AtMostOneCallPerTag == C28_OfOriginal(Extracted, TagCalls)

\* The returned text holds a tag that came in with an error marker, and
\* the one tag of the original text was executed once.
C28_Witness ==
  /\ GenericDone
  /\ Len(Extracted) = 1 /\ Len(TagCalls) = 1
  /\ tagLog[1].kind = "failure"
  /\ RegexExec(outcome.response, 1).found

(***************************************************************************)
(* C29: for a tag whose tool resolves but whose action is not in the       *)
(* tool's catalog, or whose tool has no catalog, validation reports no     *)
(* missing parameter and tool.execute is called with that action name; the *)
(* tag ends as a success marker if execute returns and as an error marker  *)
(* if it raises.                                                           *)
(***************************************************************************)
\* The action is not in the catalog of the tool, or there is no catalog.
Unlisted(tool, actionName) ==
  \/ ~ToolObj(tool).hasActions
  \/ \A i \in 1..Len(ToolObj(tool).actions) :
       <<ToolObj(tool).actions[i].name>> # actionName

C29_Executed(k, e) ==
  /\ e.missing = << >>
  /\ \E i \in 1..Len(execLog) :
       /\ execLog[i].tag = k
       /\ execLog[i].action = e.actionName
       /\ execLog[i].tool = e.tool
  /\ \/ /\ e.kind = "success"
        /\ e.marker = SuccessMarker(ResultKey(e.toolName, e.actionName))
     \/ /\ e.kind = "failure"
        /\ \E msg \in Messages :
             e.marker = ErrorMarker(e.toolName, e.actionName, msg)

C29_UnlistedActionExecuted ==
  \A k \in 1..Len(tagLog) :
    (/\ tagLog[k].tool \in ToolIds
     /\ JSONparse(tagLog[k].paramsStr).ok
     /\ Unlisted(tagLog[k].tool, tagLog[k].actionName))
      => C29_Executed(k, tagLog[k])

\* An action the GitHubTool catalog does not list was executed and failed;
\* an action of the tool without a catalog was executed and returned.
C29_Witness ==
  /\ GenericDone /\ Len(tagLog) = 2
  /\ tagLog[1].actionName = <<"frobnicate">> /\ tagLog[1].kind = "failure"
  /\ tagLog[2].tool = "ut" /\ tagLog[2].kind = "success"

(***************************************************************************)
(* C30: when a query matches a fast-path intent and the collaborator is    *)
(* unavailable (GitHubAgent: no registered tool named github; SlackAgent:  *)
(* no Slack client), processQuery returns the fixed explanatory response   *)
(* with an empty toolResults, executes no tool action and makes no         *)
(* model-completion call.                                                  *)
(***************************************************************************)
\* The collaborator of the agent's fast path is missing from the registry
\* or the instance.
Unavailable(registry) ==
  \/ /\ agent.kind = "github"
     /\ \A i \in 1..Len(registry) : ToolObj(registry[i].tool).name # "github"
  \/ agent.kind = "slack" /\ ~agent.hasClient

FixedTexts ==
  {<<"I can't access GitHub right now. Please make sure the GitHub tool is registered.">>,
   <<"Cannot send message", ":", " Slack client not initialized">>,
   <<"Cannot get channel info", ":", " Slack client not initialized">>,
   <<"Cannot create channel", ":", " Slack client not initialized">>}

\* processQuery called with a matching query while the collaborator is
\* missing returns at once.
C30_Call ==
  (/\ pc = "idle" /\ pc' # "idle"
   /\ Matching(IntentList(agent.kind), query') # {}
   /\ Unavailable(tools))
    => /\ pc' = "done"
       /\ outcome'.result = "returned"
       /\ outcome'.response \in FixedTexts
       /\ outcome'.toolResults = << >>
       /\ execLog' = << >>
       /\ modelCalls' = 0

C30_UnavailableAnswer == [][C30_Call]_vars

\* A GitHubAgent whose registry holds another tool, but none named
\* github, answered a request for a summary or a review.
C30_Witness ==
  /\ agent.kind = "github"
  /\ tools # << >>
  /\ Unavailable(tools)
  /\ Matching(IntentList(agent.kind), query) # {}
  /\ pc = "done" /\ outcome.kind = "unavailable"
  /\ outcome.toolResults = << >> /\ execLog = << >> /\ modelCalls = 0

====
